---- MODULE Spec2Model ----
(***************************************************************************)
(* A model of tools/simulator/device_simulator.py: the nRF Cloud device    *)
(* simulator (provisioning, connection set-up, the callbacks of the MQTT   *)
(* transport, the command router and the telemetry producers).             *)
(*                                                                         *)
(* Strings are sequences of tokens.  A topic or a number read from a       *)
(* string is a sequence of one-character tokens; an AT command is a        *)
(* sequence whose tokens are single whitespace characters or maximal       *)
(* chunks without whitespace.  A JSON value is a record [t, n, s]: its     *)
(* Python type, its number and its string.                                 *)
(*                                                                         *)
(* The module holds several specifications over the same variables and     *)
(* the same operators, one per part of the program:                        *)
(*   SpecRouter    the callbacks of the transport in the steady state,     *)
(*                 over messages of every shape                            *)
(*   SpecKeys      the keyboard commands and the connection callbacks      *)
(*   SpecTopic     _on_message over topics composed from segments          *)
(*   SpecLoops     the location producer, configuration updates, a lost    *)
(*                 session and shutdown                                    *)
(*   SpecProducers both producers and shutdown; SpecProducersFair adds     *)
(*                 that the loop threads are scheduled                     *)
(*   SpecCursor    the cursor under the location loop and the command g,   *)
(*                 with the load and the store of the cursor as two steps  *)
(*   SpecTick      one tick of the location loop read by read, the toggle  *)
(*                 switched and the session lost and found meanwhile       *)
(*   SpecReads     the same loop under configuration updates of both       *)
(*                 fields, some refused by int()                           *)
(*   SpecCounter   the counter under the location loop and the command c,  *)
(*                 with the publish and the increment as two steps         *)
(*   SpecShutdown  shutdown statement by statement against both producers  *)
(*   SpecConnect   connect() from client.connect on, the callbacks, and    *)
(*                 the start of run(); SpecConnectFair adds that the main  *)
(*                 thread is scheduled                                     *)
(*   SpecDiag      the diagnostic run: connect() in diagnostic mode, the   *)
(*                 observation loop and the subscribe probe                *)
(*   SpecSetup     run() from its start to the client connect() makes:     *)
(*                 provisioning, the identity files, the cache             *)
(***************************************************************************)
EXTENDS Integers, Sequences, FiniteSets, TLC

VARIABLES
    \* fields of DeviceSimulator (None, and an attribute not yet set, is JNull)
    client, connected, route_index, shadow_config, test_counter, running,
    diag_mode, mqtt_host, topic_d2c, topic_c2d, device_id,
    \* the transport: its session, whether its network thread runs, the
    \* position of that thread inside _on_connect, and the topic of the
    \* message a sender is composing
    sess, loop, cbPc, inbox,
    \* the main thread: its position, the budget left of connect()'s wait,
    \* the seconds counted by the observation loop of the diagnostic run,
    \* and the cursor loaded by the last statement of send_gnss_location
    mainPc, timeout, hold, gLoad,
    \* _location_loop: its position, the length of its wait window (the
    \* interval read when the window began), the steps slept in it, and the
    \* cursor loaded by the last statement of send_gnss_location
    locPc, locWin, locDone, locLoad,
    \* _temperature_loop, likewise
    tmpPc, tmpWin, tmpDone,
    \* the files (key and certificate: 0 when missing, else the number of the
    \* generation that wrote them; the cache: its text), the number of
    \* generations so far, whether the backend holds the device, the
    \* requests made to the backend in this run, and the info last handed to
    \* _save_mqtt_info (<<>>: none yet)
    key_file, cert_file, ca_file, info_file, gens, registered, apiLog, saved,
    \* what the last step did: its name, its input, the value it returned (a
    \* sender: the value of its last _publish_d2c call), the exception that
    \* escaped it, the messages it handed to client.publish and the topics it
    \* handed to client.subscribe; and the counter values of the COUNT
    \* messages the transport has accepted so far, in the order of the calls
    op, arg, ret, raised, sent, subd, counts,
    \* what happened so far in this run: the cursor after each
    \* send_gnss_location call, whether a connect-ack with code 0 was handled,
    \* whether a disconnect was handled, the topics subscribed, and the
    \* device-info snapshots handed to the
    \* transport
    idxHist, acked, dropped, subscribed, snapshots

fieldVars == <<client, route_index, shadow_config, test_counter, running,
               diag_mode, mqtt_host, topic_d2c, topic_c2d, device_id>>
netVars == <<sess, loop, cbPc, inbox>>
mainVars == <<mainPc, timeout, hold, gLoad>>
locVars == <<locPc, locWin, locDone, locLoad>>
tmpVars == <<tmpPc, tmpWin, tmpDone>>
fsVars == <<key_file, cert_file, ca_file, info_file, gens, registered, apiLog,
            saved>>
obsVars == <<op, arg, ret, raised, sent, subd, counts>>
cumVars == <<idxHist, acked, dropped, subscribed, snapshots>>
vars == <<fieldVars, connected, netVars, mainVars, locVars, tmpVars, fsVars,
          obsVars, cumVars>>

(***************************************************************************)
(* Bounds of the model.                                                    *)
(***************************************************************************)
\* waypoints of the route (TOKYO_ROUTE has 20)
NumWaypoints == 2
\* test_counter values explored
MaxCount == 2
\* send_gnss_location calls recorded in idxHist, in route lengths
MaxLaps == 2
\* the largest reporting interval, in seconds, of a config file or an update
MaxInterval == 3
\* segments of the topic of a composed message
MaxSegments == 5
\* key generations on one machine
MaxGen == 2
\* temperature_interval_seconds of the config file
TempInterval == 2

(***************************************************************************)
(* The route.                                                              *)
(***************************************************************************)
StepsBetween == 3

TOKYO_ROUTE == [i \in 1..NumWaypoints |-> [wp |-> i, step |-> 0]]

interpolate_points(p1, p2, num_steps) ==
    [i \in 1..num_steps |-> [wp |-> p1.wp, step |-> i]]

RECURSIVE build_route_from(_, _, _)
build_route_from(waypoints, steps_between, i) ==
    IF i > Len(waypoints) - 1 THEN <<>>
    ELSE <<waypoints[i]>>
         \o interpolate_points(waypoints[i], waypoints[i + 1], steps_between)
         \o build_route_from(waypoints, steps_between, i + 1)

build_route(waypoints, steps_between) ==
    build_route_from(waypoints, steps_between, 1)
    \o <<waypoints[Len(waypoints)]>>

route == build_route(TOKYO_ROUTE, StepsBetween)

(***************************************************************************)
(* Strings and JSON values.                                                *)
(***************************************************************************)
Whitespace == {" ", "\t", "\n"}

RECURSIVE lstrip(_)
lstrip(s) ==
    IF s # <<>> /\ Head(s) \in Whitespace THEN lstrip(Tail(s)) ELSE s

RECURSIVE rstrip(_)
rstrip(s) ==
    IF s # <<>> /\ s[Len(s)] \in Whitespace
    THEN rstrip(SubSeq(s, 1, Len(s) - 1)) ELSE s

\* str.strip()
strip(s) == rstrip(lstrip(s))

\* str.endswith(suffix)
endswith(s, suffix) ==
    /\ Len(s) >= Len(suffix)
    /\ SubSeq(s, Len(s) - Len(suffix) + 1, Len(s)) = suffix

\* sub in s, for strings
contains(s, sub) ==
    \E i \in 1..(Len(s) - Len(sub) + 1) : SubSeq(s, i, i + Len(sub) - 1) = sub

JInt(n) == [t |-> "int", n |-> n, s |-> <<>>]
JFloat(n) == [t |-> "float", n |-> n, s |-> <<>>]
JBool(b) == [t |-> "bool", n |-> IF b THEN 1 ELSE 0, s |-> <<>>]
JStr(s) == [t |-> "str", n |-> 0, s |-> s]
JNull == [t |-> "null", n |-> 0, s |-> <<>>]
JList == [t |-> "list", n |-> 0, s |-> <<>>]
\* a key that the dict does not hold
Absent == [t |-> "absent", n |-> 0, s |-> <<>>]

DigitChars == {"0", "1", "2", "3", "4", "5", "6", "7", "8", "9"}

DigitVal(c) ==
    CASE c = "0" -> 0 [] c = "1" -> 1 [] c = "2" -> 2 [] c = "3" -> 3
      [] c = "4" -> 4 [] c = "5" -> 5 [] c = "6" -> 6 [] c = "7" -> 7
      [] c = "8" -> 8 [] c = "9" -> 9

RECURSIVE DigitsToInt(_, _)
DigitsToInt(s, acc) ==
    IF s = <<>> THEN acc
    ELSE DigitsToInt(Tail(s), acc * 10 + DigitVal(Head(s)))

\* Python's int(v): [exc, n].  A float is held by its integral part, to which
\* int() truncates it; a string is stripped, may carry a sign and must be
\* decimal digits.
PyInt(v) ==
    CASE v.t \in {"int", "float", "bool"} -> [exc |-> "none", n |-> v.n]
      [] v.t = "str" ->
            LET body == strip(v.s)
                neg == body # <<>> /\ Head(body) = "-"
                digits == IF body # <<>> /\ Head(body) \in {"+", "-"}
                          THEN Tail(body) ELSE body
            IN  IF digits = <<>> \/ \E i \in 1..Len(digits) : digits[i] \notin DigitChars
                THEN [exc |-> "ValueError", n |-> 0]
                ELSE [exc |-> "none",
                      n |-> IF neg THEN 0 - DigitsToInt(digits, 0)
                            ELSE DigitsToInt(digits, 0)]
      [] OTHER -> [exc |-> "TypeError", n |-> 0]

\* Python's truth value of a JSON value (a list here is a non-empty one, a
\* float one with a fractional part)
PyTruthy(v) ==
    CASE v.t \in {"int", "bool"} -> v.n # 0
      [] v.t = "float" -> TRUE
      [] v.t = "str" -> v.s # <<>>
      [] v.t = "list" -> TRUE
      [] v.t = "dict" -> TRUE
      [] OTHER -> FALSE

(***************************************************************************)
(* Inbound payloads.  A payload is what json.loads makes of the bytes:     *)
(* shape "nonjson" when decoding or parsing fails, "list" for JSON that is *)
(* not an object, "dict" for an object with the fields appId, messageType  *)
(* and data ("" and Absent when the key is missing).  A data value is a    *)
(* JSON value; when it is an object it holds counterEnable (ce),           *)
(* locationInterval (li) and one key the simulator does not know (zz).     *)
(***************************************************************************)
Data(v) == [t |-> v.t, n |-> v.n, s |-> v.s, ce |-> Absent, li |-> Absent, zz |-> Absent]

Dict(ce, li, zz) == [t |-> "dict", n |-> 0, s |-> <<>>, ce |-> ce, li |-> li, zz |-> zz]

Payload(appId, messageType, data) ==
    [shape |-> "dict", appId |-> appId, messageType |-> messageType, data |-> data]

NonJson == [shape |-> "nonjson", appId |-> "", messageType |-> "", data |-> Data(Absent)]

NonObject == [shape |-> "list", appId |-> "", messageType |-> "", data |-> Data(Absent)]

\* key in config: [exc, v].  A dict is asked for the key, a string for the
\* substring, a list for the element; any other value is not iterable.
PyIn(key, config) ==
    CASE config.t = "dict" ->
            [exc |-> "none",
             v |-> IF key = "counterEnable" THEN config.ce # Absent
                   ELSE config.li # Absent]
      [] config.t = "str" ->
            [exc |-> "none", v |-> \E i \in 1..Len(config.s) : config.s[i] = key]
      [] config.t = "list" -> [exc |-> "none", v |-> FALSE]
      [] OTHER -> [exc |-> "TypeError", v |-> FALSE]

(***************************************************************************)
(* Publishing.  An effect is what a handler does: the shadow_config it     *)
(* leaves (sc), the messages it hands to client.publish (out), the value   *)
(* its last _publish_d2c call returned (pub) and the exception that        *)
(* escapes it (exc).                                                       *)
(***************************************************************************)
MQTT_ERR_SUCCESS == 0

\* the polls of the handshake wait of connect()
ConnectTimeout == 30

\* the seconds of the observation loop of the diagnostic run
HoldWindow == 10

\* what client.publish may return as result.rc
PublishRcs == {MQTT_ERR_SUCCESS, 4}

Msg(appId, messageType, data, num) ==
    [appId |-> appId, messageType |-> messageType, data |-> data, num |-> num]

\* mutant: the connected flag is not consulted
_publish_d2c_unguarded(conn, message, prc) ==
    [ret |-> IF prc = MQTT_ERR_SUCCESS THEN "True" ELSE "False", out |-> <<message>>]

_publish_d2c(conn, message, prc) ==
    IF ~conn
    THEN [ret |-> "False", out |-> <<>>]
    ELSE [ret |-> IF prc = MQTT_ERR_SUCCESS THEN "True" ELSE "False",
          out |-> <<message>>]

responses(id) ==
    (<<"AT+CGMR">> :> <<"mfw_nrf91x1_2.0.2">>)
    @@ (<<"AT+CGSN">> :> id)
    @@ (<<"AT%HWVERSION">> :> <<"nRF9151 LACA AAA (simulator)">>)
    @@ (<<"AT+CIMI">> :> <<"440100000000000">>)

_send_at_response(sc, conn, id, command, prc) ==
    IF command.t # "str"
    THEN [sc |-> sc, out |-> <<>>, pub |-> "None", exc |-> "AttributeError"]
    ELSE LET key == strip(command.s)
             response == IF key \in DOMAIN responses(id)
                         THEN responses(id)[key] ELSE <<"ERROR">>
             p == _publish_d2c(conn, Msg("MODEM", "DATA", response, 0), prc)
         IN  [sc |-> sc, out |-> p.out, pub |-> p.ret, exc |-> "none"]

\* mutant: both fields are rewritten on every update, a missing one to its
\* default
_handle_config_update_reset(sc, config) ==
    IF config.t # "dict"
    THEN [sc |-> sc, out |-> <<>>, pub |-> "None", exc |-> "none"]
    ELSE [sc |-> [counterEnable |-> IF config.ce = Absent THEN JBool(FALSE)
                                     ELSE [t |-> config.ce.t, n |-> config.ce.n, s |-> config.ce.s],
                  locationInterval |-> IF config.li = Absent \/ PyInt(config.li).exc # "none"
                                       THEN 300 ELSE PyInt(config.li).n],
          out |-> <<>>, pub |-> "None", exc |-> "none"]

\* mutant: an interval that cannot be coerced puts the default back
_handle_config_update_clear(sc, config) ==
    IF config.t # "dict"
    THEN [sc |-> sc, out |-> <<>>, pub |-> "None", exc |-> "none"]
    ELSE LET sc1 == IF config.ce # Absent
                    THEN [sc EXCEPT !.counterEnable =
                              [t |-> config.ce.t, n |-> config.ce.n, s |-> config.ce.s]]
                    ELSE sc
             coerced == PyInt(config.li)
         IN  IF config.li = Absent
             THEN [sc |-> sc1, out |-> <<>>, pub |-> "None", exc |-> "none"]
             ELSE IF coerced.exc # "none"
             THEN [sc |-> [sc1 EXCEPT !.locationInterval = 300],
                   out |-> <<>>, pub |-> "None", exc |-> coerced.exc]
             ELSE [sc |-> [sc1 EXCEPT !.locationInterval = coerced.n],
                   out |-> <<>>, pub |-> "None", exc |-> "none"]

_handle_config_update(sc, config) ==
    LET in_ce == PyIn("counterEnable", config)
        in_li == PyIn("locationInterval", config)
        sc1 == IF in_ce.exc = "none" /\ in_ce.v /\ config.t = "dict"
               THEN [sc EXCEPT !.counterEnable = [t |-> config.ce.t, n |-> config.ce.n, s |-> config.ce.s]]
               ELSE sc
        coerced == PyInt(config.li)
    IN  IF in_ce.exc # "none"
        THEN [sc |-> sc, out |-> <<>>, pub |-> "None", exc |-> in_ce.exc]
        ELSE IF in_ce.v /\ config.t # "dict"
        THEN [sc |-> sc, out |-> <<>>, pub |-> "None", exc |-> "TypeError"]
        ELSE IF ~in_li.v
        THEN [sc |-> sc1, out |-> <<>>, pub |-> "None", exc |-> "none"]
        ELSE IF config.t # "dict"
        THEN [sc |-> sc1, out |-> <<>>, pub |-> "None", exc |-> "TypeError"]
        ELSE IF coerced.exc # "none"
        THEN [sc |-> sc1, out |-> <<>>, pub |-> "None", exc |-> coerced.exc]
        ELSE [sc |-> [sc1 EXCEPT !.locationInterval = coerced.n],
              out |-> <<>>, pub |-> "None", exc |-> "none"]

\* mutant: every MODEM message is taken for a command
_handle_c2d_message_any_modem(sc, conn, id, payload, prc) ==
    IF payload.shape # "dict"
    THEN [sc |-> sc, out |-> <<>>, pub |-> "None", exc |-> "AttributeError"]
    ELSE IF payload.appId = "MODEM"
    THEN _send_at_response(sc, conn, id,
             IF payload.data.t = "absent" THEN Data(JStr(<<>>)) ELSE payload.data, prc)
    ELSE IF payload.appId = "CONFIG"
    THEN _handle_config_update(sc,
             IF payload.data.t = "absent" THEN Dict(Absent, Absent, Absent)
             ELSE payload.data)
    ELSE [sc |-> sc, out |-> <<>>, pub |-> "None", exc |-> "none"]

_handle_c2d_message(sc, conn, id, payload, prc) ==
    IF payload.shape # "dict"
    THEN [sc |-> sc, out |-> <<>>, pub |-> "None", exc |-> "AttributeError"]
    ELSE IF payload.appId = "MODEM" /\ payload.messageType = "CMD"
    THEN _send_at_response(sc, conn, id,
             IF payload.data.t = "absent" THEN Data(JStr(<<>>)) ELSE payload.data, prc)
    ELSE IF payload.appId = "CONFIG"
    THEN _handle_config_update(sc,
             IF payload.data.t = "absent" THEN Dict(Absent, Absent, Absent)
             ELSE payload.data)
    ELSE [sc |-> sc, out |-> <<>>, pub |-> "None", exc |-> "none"]

\* mutant: the device identifier is left out of the segment
_is_c2d_topic_anyone(id, topic) ==
    /\ endswith(topic, <<"/", "r">>)
    /\ contains(topic, <<"/", "m", "/", "d", "/">>)

_is_c2d_topic(id, topic) ==
    /\ endswith(topic, <<"/", "r">>)
    /\ contains(topic, <<"/", "m", "/", "d", "/">> \o id \o <<"/">>)

_on_message(sc, conn, id, topic, payload, prc) ==
    IF payload.shape = "nonjson"
    THEN [sc |-> sc, out |-> <<>>, pub |-> "None", exc |-> "none"]
    ELSE IF _is_c2d_topic(id, topic)
    THEN _handle_c2d_message(sc, conn, id, payload, prc)
    ELSE [sc |-> sc, out |-> <<>>, pub |-> "None", exc |-> "none"]
(***************************************************************************)
(* The telemetry senders.                                                  *)
(***************************************************************************)
\* mutant: the cursor wraps one point early
send_gnss_location_short(conn, idx, prc) ==
    LET p == _publish_d2c(conn, Msg("GNSS", "", <<>>, idx), prc)
    IN  [out |-> p.out, pub |-> p.ret, route_index |-> (idx + 1) % (Len(route) - 1)]

send_gnss_location(conn, idx, prc) ==
    LET point == route[idx + 1]
        p == _publish_d2c(conn, Msg("GNSS", "", <<>>, idx), prc)
    IN  [out |-> p.out, pub |-> p.ret, route_index |-> (idx + 1) % Len(route)]

send_temperature(conn, prc) ==
    _publish_d2c(conn, Msg("TEMP", "DATA", <<>>, 0), prc)

send_test_counter(conn, counter, prc) ==
    LET p == _publish_d2c(conn, Msg("COUNT", "DATA", <<>>, counter), prc)
    IN  [out |-> p.out, pub |-> p.ret,
         test_counter |-> IF p.ret = "True" THEN counter + 1 ELSE counter]

send_alert(conn, alert_type, prc) ==
    _publish_d2c(conn, Msg("ALERT", "DATA", <<>>, alert_type), prc)

send_device_info(conn, sc, prc) ==
    _publish_d2c(conn, Msg("DEVICE", "DATA", <<>>, sc.locationInterval), prc)

(***************************************************************************)
(* Inputs.                                                                 *)
(***************************************************************************)
DeviceIds == {<<"d", "1">>, <<"d", "2">>}

DefaultId == <<"d", "1">>

Prefix == <<"p">>

\* the fallback rule of _load_mqtt_info
FallbackD2c(prefix, id) == prefix \o <<"/", "m", "/", "d", "/">> \o id \o <<"/", "d", "2", "c">>

FallbackC2d(prefix, id) == prefix \o <<"/", "m", "/", "d", "/">> \o id \o <<"/", "+", "/", "r">>

\* a topic that the pattern of FallbackC2d matches
C2dTopic(id) == Prefix \o <<"/", "m", "/", "d", "/">> \o id \o <<"/", "x", "/", "r">>

\* topics of the messages delivered to a running simulator
TopicSamples ==
    {C2dTopic(<<"d", "1">>), C2dTopic(<<"d", "2">>), FallbackD2c(Prefix, <<"d", "1">>)}

CommandStrings ==
    {<<"AT+CGMR">>, <<"AT+CGSN">>, <<"AT%HWVERSION">>, <<"AT+CIMI">>,
     <<"AT">>, <<>>, <<" ", "AT+CGMR", "\n">>, <<"AT", " ", "+CGMR">>}

ModemPayloads ==
    {Payload("MODEM", "CMD", Data(JStr(c))) : c \in CommandStrings}
    \cup {Payload("MODEM", "CMD", Data(v)) : v \in {JInt(1), JNull, Absent}}
    \cup {Payload("MODEM", "DATA", Data(JStr(<<"AT+CGMR">>)))}

CeInputs == {Absent, JBool(TRUE), JBool(FALSE), JStr(<<"on">>)}

LiInputs ==
    {Absent, JStr(<<"2">>), JStr(<<"x">>), JFloat(1), JNull}
    \cup {JInt(n) : n \in {-1, 0, 1, MaxInterval}}

ConfigPayloads ==
    {Payload("CONFIG", "CMD", Dict(ce, li, Absent)) : ce \in CeInputs, li \in LiInputs}
    \cup {Payload("CONFIG", "", Dict(Absent, li, JInt(7))) : li \in {Absent, JInt(1)}}
    \cup {Payload("CONFIG", "CMD", Data(v)) :
              v \in {JStr(<<"counterEnable">>), JInt(5), JList, Absent}}

OtherPayloads ==
    {Payload("GNSS", "DATA", Data(JNull)), NonJson, NonObject,
     Payload("MODEM", "cmd", Data(JStr(<<"AT+CGMR">>))),
     Payload("", "CMD", Data(JStr(<<"AT+CGMR">>))),
     Payload("config", "CMD", Dict(JBool(TRUE), JInt(MaxInterval), Absent)),
     Payload("SHADOW", "CMD", Dict(JBool(TRUE), JInt(MaxInterval), Absent))}

Payloads == ModemPayloads \cup ConfigPayloads \cup OtherPayloads

ConnackRcs == {0, 1, 5}

DisconnectRcs == {0, 7}

NoArg == [topic |-> <<>>, payload |-> NonJson, rc |-> 0]

\* the counter values of the COUNT messages among out, when the publish
\* that handed over the last of out returned r
CountsIn(r, out) ==
    IF r = "True"
    THEN LET cs == SelectSeq(out, LAMBDA msg : msg.appId = "COUNT")
         IN  [i \in 1..Len(cs) |-> cs[i].num]
    ELSE <<>>

Did(o, a, r, e, out, sub) ==
    /\ op' = o /\ arg' = a /\ ret' = r /\ raised' = e /\ sent' = out /\ subd' = sub
    /\ counts' = counts \o CountsIn(r, out)

(***************************************************************************)
(* The callbacks, run by the network thread of the transport.              *)
(***************************************************************************)
\* mutant: the flag is set and the subscribe issued whatever the code
_on_connect_any(diag, rc) == [connected |-> TRUE, subscribe |-> ~diag]

_on_connect(diag, rc) ==
    IF rc = 0
    THEN [connected |-> TRUE, subscribe |-> ~diag]
    ELSE [connected |-> FALSE, subscribe |-> FALSE]

\* mutant: only an unexpected disconnect clears the flag
_on_disconnect_unexpected(rc) == [connected |-> rc = 0]

_on_disconnect(rc) == [connected |-> FALSE]

\* _on_connect up to its return or to its call of client.subscribe
OnConnect(rc) ==
    /\ loop /\ mainPc # "exit" /\ sess = "connecting" /\ cbPc = "idle"
    /\ LET r == _on_connect(diag_mode, rc)
       IN  /\ connected' = r.connected
           /\ cbPc' = IF r.subscribe THEN "subscribe" ELSE "idle"
    /\ sess' = IF rc = 0 THEN "up" ELSE "refused"
    /\ acked' = (acked \/ rc = 0)
    /\ Did("_on_connect", [NoArg EXCEPT !.rc = rc], "None", "none", <<>>, <<>>)
    /\ UNCHANGED <<fieldVars, loop, inbox, mainVars, locVars, tmpVars, fsVars,
                   idxHist, dropped, subscribed, snapshots>>

\* mutant: the callback sends the device-info snapshot after its subscribe
OnConnectSubscribe_snapshot ==
    /\ mainPc # "exit" /\ cbPc = "subscribe"
    /\ cbPc' = "idle"
    /\ subscribed' = subscribed \cup {topic_c2d}
    /\ snapshots' = snapshots + 1
    /\ Did("_on_connect", arg, "True", "none",
           <<Msg("DEVICE", "DATA", <<>>, shadow_config.locationInterval)>>, <<topic_c2d>>)
    /\ UNCHANGED <<fieldVars, connected, sess, loop, inbox, mainVars, locVars,
                   tmpVars, fsVars, idxHist, acked, dropped>>

\* client.subscribe(self.topic_c2d), the end of _on_connect
OnConnectSubscribe ==
    /\ mainPc # "exit" /\ cbPc = "subscribe"
    /\ cbPc' = "idle"
    /\ subscribed' = subscribed \cup {topic_c2d}
    /\ Did("_on_connect", arg, "None", "none", <<>>, <<topic_c2d>>)
    /\ UNCHANGED <<fieldVars, connected, sess, loop, inbox, mainVars, locVars,
                   tmpVars, fsVars, idxHist, acked, dropped, snapshots>>

OnDisconnect(rc) ==
    /\ loop /\ mainPc # "exit" /\ sess \in {"up", "refused"} /\ cbPc = "idle"
    /\ connected' = _on_disconnect(rc).connected
    /\ sess' = "down"
    /\ dropped' = TRUE
    /\ Did("_on_disconnect", [NoArg EXCEPT !.rc = rc], "None", "none", <<>>, <<>>)
    /\ UNCHANGED <<fieldVars, loop, cbPc, inbox, mainVars, locVars, tmpVars, fsVars,
                   idxHist, acked, subscribed, snapshots>>

\* the transport's own reconnect (reconnect_delay_set, loop_start)
Reconnect ==
    /\ loop /\ mainPc # "exit" /\ sess = "down" /\ cbPc = "idle"
    /\ sess' = "connecting"
    /\ Did("reconnect", NoArg, "None", "none", <<>>, <<>>)
    /\ UNCHANGED <<fieldVars, connected, loop, cbPc, inbox, mainVars, locVars,
                   tmpVars, fsVars, cumVars>>

OnMessage(topic, payload, prc) ==
    /\ loop /\ mainPc # "exit" /\ sess = "up" /\ cbPc = "idle"
    /\ LET r == _on_message(shadow_config, connected, device_id, topic, payload, prc)
       IN  /\ shadow_config' = r.sc
           /\ Did("_on_message", [topic |-> topic, payload |-> payload, rc |-> 0],
                  r.pub, r.exc, r.out, <<>>)
    /\ inbox' = <<>>
    /\ UNCHANGED <<client, connected, route_index, test_counter, running, diag_mode,
                   mqtt_host, topic_d2c, topic_c2d, device_id, sess, loop, cbPc,
                   mainVars, locVars, tmpVars, fsVars, cumVars>>
(***************************************************************************)
(* The keyboard commands of run(), each run to its end.                    *)
(***************************************************************************)
KeyFrame == <<client, connected, shadow_config, running, diag_mode, mqtt_host,
              topic_d2c, topic_c2d, device_id, netVars, mainVars, locVars, tmpVars,
              fsVars, acked, dropped, subscribed, snapshots>>

KeyA(prc) ==
    /\ mainPc = "kbd" /\ running
    /\ LET p == send_alert(connected, 0, prc)
       IN  Did("send_alert", NoArg, p.ret, "none", p.out, <<>>)
    /\ UNCHANGED <<KeyFrame, route_index, test_counter, idxHist>>

KeyT(prc) ==
    /\ mainPc = "kbd" /\ running
    /\ LET p == send_temperature(connected, prc)
       IN  Did("send_temperature", NoArg, p.ret, "none", p.out, <<>>)
    /\ UNCHANGED <<KeyFrame, route_index, test_counter, idxHist>>

KeyG(prc) ==
    /\ mainPc = "kbd" /\ running
    /\ Len(idxHist) <= MaxLaps * Len(route)
    /\ LET r == send_gnss_location(connected, route_index, prc)
       IN  /\ Did("send_gnss_location", NoArg, r.pub, "none", r.out, <<>>)
           /\ route_index' = r.route_index
           /\ idxHist' = Append(idxHist, r.route_index)
    /\ UNCHANGED <<KeyFrame, test_counter>>

KeyC(prc) ==
    /\ mainPc = "kbd" /\ running
    /\ test_counter < MaxCount
    /\ LET r == send_test_counter(connected, test_counter, prc)
       IN  /\ Did("send_test_counter", NoArg, r.pub, "none", r.out, <<>>)
           /\ test_counter' = r.test_counter
    /\ UNCHANGED <<KeyFrame, route_index, idxHist>>

(***************************************************************************)
(* The connection-info cache: the text json.dump writes is the members of  *)
(* the dict in order, each a <<key, value>>; json.load gives the dict back *)
(* (of a key written twice the last value), and get the value of a key or  *)
(* None.                                                                   *)
(***************************************************************************)
Info(host, d2c, c2d) == [mqtt_host |-> host, topic_d2c |-> d2c, topic_c2d |-> c2d]

\* mutant: the two topics are written under each other's key
json_dump_crossed(info) ==
    << <<"mqtt_host", info.mqtt_host>>, <<"topic_d2c", info.topic_c2d>>,
       <<"topic_c2d", info.topic_d2c>> >>

json_dump(info) ==
    << <<"mqtt_host", info.mqtt_host>>, <<"topic_d2c", info.topic_d2c>>,
       <<"topic_c2d", info.topic_c2d>> >>

HasKey(text, key) == \E i \in 1..Len(text) : text[i][1] = key

RECURSIVE json_get(_, _)
json_get(text, key) ==
    IF text = <<>> THEN JNull
    ELSE IF text[Len(text)][1] = key THEN text[Len(text)][2]
    ELSE json_get(SubSeq(text, 1, Len(text) - 1), key)

\* json.load: the dict of the text
json_load(text) ==
    [k \in {text[i][1] : i \in 1..Len(text)} |-> json_get(text, k)]

\* dict.get(key)
dict_get(d, key) == IF key \in DOMAIN d THEN d[key] ELSE JNull

NoFile == [state |-> "missing", text |-> <<>>]

\* a cache file that is not JSON
CorruptFile == [state |-> "corrupt", text |-> <<>>]

JsonFile(text) == [state |-> "json", text |-> text]

DefaultHost == JStr(<<"mqtt.nrfcloud.com">>)

(***************************************************************************)
(* The steady state: run() has provisioned, connected and started the      *)
(* producers, and waits for a keyboard command.                            *)
(***************************************************************************)
SteadyFor(id) ==
    /\ client = "Client" /\ connected = TRUE
    /\ route_index = 0
    /\ shadow_config \in {[counterEnable |-> JBool(FALSE), locationInterval |-> n] :
                              n \in 1..MaxInterval}
    /\ test_counter = 0 /\ running = TRUE /\ diag_mode = FALSE
    /\ mqtt_host = DefaultHost
    /\ device_id = id
    /\ topic_d2c = JStr(FallbackD2c(Prefix, id))
    /\ topic_c2d = JStr(FallbackC2d(Prefix, id))
    /\ sess = "up" /\ loop = TRUE /\ cbPc = "idle" /\ inbox = <<>>
    /\ mainPc = "kbd" /\ timeout = ConnectTimeout /\ hold = 0 /\ gLoad = 0
    /\ locPc = "warmup" /\ locWin = 0 /\ locDone = 0 /\ locLoad = 0
    /\ tmpPc = "warmup" /\ tmpWin = 0 /\ tmpDone = 0
    /\ key_file = 1 /\ cert_file = 1 /\ ca_file = TRUE /\ gens = 1
    /\ info_file = JsonFile(json_dump(Info(mqtt_host, topic_d2c, topic_c2d)))
    /\ registered = TRUE /\ apiLog = <<>>
    /\ saved = <<Info(mqtt_host, topic_d2c, topic_c2d)>>
    /\ op = "run" /\ arg = NoArg /\ ret = "None" /\ raised = "none"
    /\ sent = <<>> /\ subd = <<>> /\ counts = <<>>
    /\ idxHist = <<0>> /\ acked = TRUE /\ dropped = FALSE
    /\ subscribed = {topic_c2d} /\ snapshots = 1

Steady == SteadyFor(DefaultId)

NextRouter ==
    \/ \E rc \in ConnackRcs : OnConnect(rc)
    \/ OnConnectSubscribe
    \/ \E rc \in DisconnectRcs : OnDisconnect(rc)
    \/ Reconnect
    \/ \E topic \in TopicSamples, payload \in Payloads, prc \in PublishRcs :
           OnMessage(topic, payload, prc)

SpecRouter == Steady /\ [][NextRouter]_vars

NextKeys ==
    \/ \E rc \in ConnackRcs : OnConnect(rc)
    \/ OnConnectSubscribe
    \/ \E rc \in DisconnectRcs : OnDisconnect(rc)
    \/ Reconnect
    \/ \E prc \in PublishRcs : KeyA(prc)
    \/ \E prc \in PublishRcs : KeyT(prc)
    \/ \E prc \in PublishRcs : KeyG(prc)
    \/ \E prc \in PublishRcs : KeyC(prc)

SpecKeys == Steady /\ [][NextKeys]_vars

(***************************************************************************)
(* Topic classification: a sender composes the topic of a message from     *)
(* segments, and the message, a supported (MODEM, CMD) query, is           *)
(* delivered to a simulator of either device.                              *)
(***************************************************************************)
TopicSegments ==
    {<<"/", "m", "/", "d">>, <<"/", "d", "1">>, <<"/", "d", "2">>, <<"/", "x">>,
     <<"/", "r">>, <<"/">>, <<"1">>}

RECURSIVE Flatten(_)
Flatten(segs) == IF segs = <<>> THEN <<>> ELSE Head(segs) \o Flatten(Tail(segs))

Query == Payload("MODEM", "CMD", Data(JStr(<<"AT+CGMR">>)))

Compose(seg) ==
    /\ loop /\ sess = "up"
    /\ Len(inbox) < MaxSegments
    /\ inbox' = Append(inbox, seg)
    /\ Did("compose", NoArg, "None", "none", <<>>, <<>>)
    /\ UNCHANGED <<fieldVars, connected, sess, loop, cbPc, mainVars, locVars,
                   tmpVars, fsVars, cumVars>>

Deliver(prc) ==
    /\ inbox # <<>>
    /\ OnMessage(Flatten(inbox), Query, prc)

NextTopic ==
    \/ \E seg \in TopicSegments : Compose(seg)
    \/ \E prc \in PublishRcs : Deliver(prc)

InitTopic ==
    \E id \in DeviceIds : SteadyFor(id) /\ shadow_config.locationInterval = 1

SpecTopic == InitTopic /\ [][NextTopic]_vars

(***************************************************************************)
(* The producers.  Each loop thread is at one of: warmup (the initial      *)
(* sleep), head (the while test), tick (the sends), read (the interval is  *)
(* read), window (the for loop of one-second sleeps), done (returned).     *)
(* The threads are daemons: they stop when run() has returned.             *)
(***************************************************************************)
\* mutant: the interval of the config file is used for every window
read_interval_fixed(sc) == 300

\* self.shadow_config.get("locationInterval", 300)
read_interval(sc) == sc.locationInterval

\* mutant: the window ends one sleep early
wait_window_early(interval, done, run) ==
    IF done + 1 < interval
    THEN IF ~run THEN [pc |-> "done", done |-> done]
                 ELSE [pc |-> "window", done |-> done + 1]
    ELSE [pc |-> "head", done |-> done]

\* mutant: the flag is not tested inside the window
wait_window_deaf(interval, done, run) ==
    IF done < interval
    THEN [pc |-> "window", done |-> done + 1]
    ELSE [pc |-> "head", done |-> done]

\* one pass of "for _ in range(interval)": return, sleep a second, or fall
\* out of the loop back to the while test
wait_window(interval, done, run) ==
    IF done < interval
    THEN IF ~run THEN [pc |-> "done", done |-> done]
                 ELSE [pc |-> "window", done |-> done + 1]
    ELSE [pc |-> "head", done |-> done]

LoopIdle(name) == Did(name, NoArg, "None", "none", <<>>, <<>>)

LocFrame == <<client, connected, shadow_config, running, diag_mode, mqtt_host,
              topic_d2c, topic_c2d, device_id, netVars, mainVars, tmpVars, fsVars,
              locLoad, acked, dropped, subscribed, snapshots>>

LocWarmup ==
    /\ mainPc # "exit" /\ locPc = "warmup"
    /\ locPc' = "head"
    /\ LoopIdle("_location_loop")
    /\ UNCHANGED <<LocFrame, route_index, test_counter, locWin, locDone, idxHist>>

LocHead ==
    /\ mainPc # "exit" /\ locPc = "head"
    /\ locPc' = IF running THEN "tick" ELSE "done"
    /\ LoopIdle("_location_loop")
    /\ UNCHANGED <<LocFrame, route_index, test_counter, locWin, locDone, idxHist>>

LocTick(prc1, prc2) ==
    /\ mainPc # "exit" /\ locPc = "tick"
    /\ Len(idxHist) <= MaxLaps * Len(route) /\ test_counter < MaxCount
    /\ locPc' = "read"
    /\ IF connected
       THEN LET g == send_gnss_location(connected, route_index, prc1)
                c == send_test_counter(connected, test_counter, prc2)
            IN  /\ route_index' = g.route_index
                /\ idxHist' = Append(idxHist, g.route_index)
                /\ IF PyTruthy(shadow_config.counterEnable)
                   THEN /\ test_counter' = c.test_counter
                        /\ Did("_location_loop", NoArg, c.pub, "none", g.out \o c.out, <<>>)
                   ELSE /\ test_counter' = test_counter
                        /\ Did("_location_loop", NoArg, g.pub, "none", g.out, <<>>)
       ELSE /\ LoopIdle("_location_loop")
            /\ UNCHANGED <<route_index, test_counter, idxHist>>
    /\ UNCHANGED <<LocFrame, locWin, locDone>>

LocRead ==
    /\ mainPc # "exit" /\ locPc = "read"
    /\ locWin' = read_interval(shadow_config)
    /\ locDone' = 0
    /\ locPc' = "window"
    /\ LoopIdle("_location_loop")
    /\ UNCHANGED <<LocFrame, route_index, test_counter, idxHist>>

LocWait ==
    /\ mainPc # "exit" /\ locPc = "window"
    /\ LET w == wait_window(locWin, locDone, running)
       IN  locPc' = w.pc /\ locDone' = w.done
    /\ LoopIdle("_location_loop")
    /\ UNCHANGED <<LocFrame, route_index, test_counter, locWin, idxHist>>

TmpFrame == <<fieldVars, connected, netVars, mainVars, locVars, fsVars, cumVars>>

TmpWarmup ==
    /\ mainPc # "exit" /\ tmpPc = "warmup"
    /\ tmpPc' = "head"
    /\ LoopIdle("_temperature_loop")
    /\ UNCHANGED <<TmpFrame, tmpWin, tmpDone>>

TmpHead ==
    /\ mainPc # "exit" /\ tmpPc = "head"
    /\ tmpPc' = IF running THEN "tick" ELSE "done"
    /\ LoopIdle("_temperature_loop")
    /\ UNCHANGED <<TmpFrame, tmpWin, tmpDone>>

TmpTick(prc) ==
    /\ mainPc # "exit" /\ tmpPc = "tick"
    /\ tmpPc' = "read"
    /\ IF connected
       THEN LET p == send_temperature(connected, prc)
            IN  Did("_temperature_loop", NoArg, p.ret, "none", p.out, <<>>)
       ELSE LoopIdle("_temperature_loop")
    /\ UNCHANGED <<TmpFrame, tmpWin, tmpDone>>

TmpRead ==
    /\ mainPc # "exit" /\ tmpPc = "read"
    /\ tmpWin' = TempInterval
    /\ tmpDone' = 0
    /\ tmpPc' = "window"
    /\ LoopIdle("_temperature_loop")
    /\ UNCHANGED TmpFrame

TmpWait ==
    /\ mainPc # "exit" /\ tmpPc = "window"
    /\ LET w == wait_window(tmpWin, tmpDone, running)
       IN  tmpPc' = w.pc /\ tmpDone' = w.done
    /\ LoopIdle("_temperature_loop")
    /\ UNCHANGED <<TmpFrame, tmpWin>>

\* the command q: the flag is cleared and the keyboard loop ends
KeyQ ==
    /\ mainPc = "kbd" /\ running
    /\ running' = FALSE
    /\ mainPc' = "stopping"
    /\ Did("q", NoArg, "None", "none", <<>>, <<>>)
    /\ UNCHANGED <<client, connected, route_index, shadow_config, test_counter,
                   diag_mode, mqtt_host, topic_d2c, topic_c2d, device_id, netVars,
                   timeout, hold, gLoad, locVars, tmpVars, fsVars, cumVars>>

\* disconnect(): loop_stop waits for the network thread, then the session
\* is closed and run() returns
Disconnect ==
    /\ mainPc = "stopping" /\ cbPc = "idle"
    /\ loop' = FALSE
    /\ sess' = "closed"
    /\ mainPc' = "exit"
    /\ Did("disconnect", NoArg, "None", "none", <<>>, <<>>)
    /\ UNCHANGED <<fieldVars, connected, cbPc, inbox, timeout, hold, gLoad, locVars, tmpVars,
                   fsVars, cumVars>>

\* configuration updates sent to a running simulator
IntervalUpdates ==
    {Payload("CONFIG", "CMD", Dict(Absent, JInt(n), Absent)) : n \in {0, 1, MaxInterval}}
    \cup {Payload("CONFIG", "CMD", Dict(JBool(TRUE), Absent, Absent))}

\* the location producer, configuration updates, a lost session, shutdown
NextLoops ==
    \/ LocWarmup \/ LocHead \/ LocRead \/ LocWait
    \/ \E prc1 \in PublishRcs, prc2 \in PublishRcs : LocTick(prc1, prc2)
    \/ \E payload \in IntervalUpdates :
           OnMessage(C2dTopic(device_id), payload, MQTT_ERR_SUCCESS)
    \/ \E rc \in DisconnectRcs : OnDisconnect(rc)
    \/ KeyQ
    \/ Disconnect

SpecLoops == Steady /\ [][NextLoops]_vars

\* both producers and shutdown
NextProducers ==
    \/ LocWarmup \/ LocHead \/ LocRead \/ LocWait
    \/ \E prc1 \in PublishRcs, prc2 \in PublishRcs : LocTick(prc1, prc2)
    \/ TmpWarmup \/ TmpHead \/ TmpRead \/ TmpWait
    \/ \E prc \in PublishRcs : TmpTick(prc)
    \/ KeyQ
    \/ Disconnect

SpecProducers == Steady /\ [][NextProducers]_vars

LocStep ==
    \/ LocWarmup \/ LocHead \/ LocRead \/ LocWait
    \/ \E prc1 \in PublishRcs, prc2 \in PublishRcs : LocTick(prc1, prc2)

TmpStep ==
    \/ TmpWarmup \/ TmpHead \/ TmpRead \/ TmpWait
    \/ \E prc \in PublishRcs : TmpTick(prc)

\* the loop threads are scheduled: a sleep ends, a send returns
SpecProducersFair == SpecProducers /\ WF_vars(LocStep) /\ WF_vars(TmpStep)

(***************************************************************************)
(* connect() from its call of client.connect on, and the rest of run().    *)
(* The main thread is at one of: tcp (about to call client.connect),       *)
(* loop_start, wait (the polling loop), check (the test of the flag after  *)
(* the loop), settle (the sleep before the snapshot), snapshot, connected  *)
(* (connect() returned True), failed (connect() returned False), kbd (the  *)
(* keyboard loop), exit.                                                   *)
(***************************************************************************)
MainFrame == <<client, connected, route_index, shadow_config, test_counter, diag_mode,
               mqtt_host, topic_d2c, topic_c2d, device_id, cbPc, inbox, fsVars,
               idxHist, acked, dropped, subscribed>>

\* client.connect(host, 8883): the session is opened, or the call raises and
\* connect() returns False
ConnectTcp(opened) ==
    /\ mainPc = "tcp"
    /\ IF opened
       THEN /\ sess' = "connecting" /\ mainPc' = "loop_start"
            /\ Did("connect", NoArg, "None", "none", <<>>, <<>>)
       ELSE /\ sess' = sess /\ mainPc' = "failed"
            /\ Did("connect", NoArg, "False", "none", <<>>, <<>>)
    /\ UNCHANGED <<MainFrame, running, loop, timeout, hold, gLoad, locVars, tmpVars, snapshots>>

ConnectLoopStart ==
    /\ mainPc = "loop_start"
    /\ loop' = TRUE
    /\ timeout' = ConnectTimeout
    /\ mainPc' = "wait"
    /\ Did("connect", NoArg, "None", "none", <<>>, <<>>)
    /\ UNCHANGED <<MainFrame, running, sess, hold, gLoad, locVars, tmpVars, snapshots>>

\* mutant: the wait has no budget
handshake_wait_unbounded(conn, budget) ==
    IF ~conn THEN [pc |-> "wait", timeout |-> budget]
    ELSE [pc |-> "check", timeout |-> budget]

\* one test of "while not self.connected and timeout > 0": a sleep of a
\* second that is taken off the budget, or the end of the loop
handshake_wait(conn, budget) ==
    IF ~conn /\ budget > 0 THEN [pc |-> "wait", timeout |-> budget - 1]
    ELSE [pc |-> "check", timeout |-> budget]

\* what connect() does with the flag it reads after the loop
handshake_verdict(conn, diag) ==
    IF ~conn THEN [pc |-> "failed", ret |-> "False"]
    ELSE IF ~diag THEN [pc |-> "settle", ret |-> "None"]
    ELSE [pc |-> "connected", ret |-> "True"]

ConnectPoll ==
    /\ mainPc = "wait"
    /\ LET w == handshake_wait(connected, timeout)
       IN  timeout' = w.timeout /\ mainPc' = w.pc
    /\ Did("connect", NoArg, "None", "none", <<>>, <<>>)
    /\ UNCHANGED <<MainFrame, running, sess, loop, hold, gLoad, locVars, tmpVars, snapshots>>

\* "if not self.connected: return False", "if not self._diag_mode"
ConnectVerdict ==
    /\ mainPc = "check"
    /\ LET v == handshake_verdict(connected, diag_mode)
       IN  /\ mainPc' = v.pc
           /\ Did("connect", NoArg, v.ret, "none", <<>>, <<>>)
    /\ UNCHANGED <<MainFrame, running, sess, loop, timeout, hold, gLoad, locVars, tmpVars, snapshots>>

ConnectSettle ==
    /\ mainPc = "settle"
    /\ mainPc' = "snapshot"
    /\ Did("connect", NoArg, "None", "none", <<>>, <<>>)
    /\ UNCHANGED <<MainFrame, running, sess, loop, timeout, hold, gLoad, locVars, tmpVars, snapshots>>

\* mutant: a snapshot that was not handed over fails connect()
ConnectSnapshot_checked(prc) ==
    /\ mainPc = "snapshot"
    /\ LET p == send_device_info(connected, shadow_config, prc)
       IN  /\ snapshots' = snapshots + Len(p.out)
           /\ Did("connect", NoArg, p.ret, "none", p.out, <<>>)
           /\ mainPc' = IF p.ret = "True" THEN "connected" ELSE "failed"
    /\ UNCHANGED <<MainFrame, running, sess, loop, timeout, hold, gLoad, locVars, tmpVars>>

ConnectSnapshot(prc) ==
    /\ mainPc = "snapshot"
    /\ LET p == send_device_info(connected, shadow_config, prc)
       IN  /\ snapshots' = snapshots + Len(p.out)
           /\ Did("connect", NoArg, "True", "none", p.out, <<>>)
    /\ mainPc' = "connected"
    /\ UNCHANGED <<MainFrame, running, sess, loop, timeout, hold, gLoad, locVars, tmpVars>>

\* run() after connect() returned True: the flag, the startup alert, the
\* producers
RunStart(prc) ==
    /\ mainPc = "connected"
    /\ running' = TRUE
    /\ LET p == send_alert(connected, 1, prc)
       IN  Did("run", NoArg, "None", "none", p.out, <<>>)
    /\ locPc' = "warmup" /\ tmpPc' = "warmup"
    /\ mainPc' = "kbd"
    /\ UNCHANGED <<MainFrame, sess, loop, timeout, hold, gLoad, locWin, locDone, locLoad, tmpWin, tmpDone,
                   snapshots>>

\* mutant: run() goes on after a failed connect()
RunReturn_regardless ==
    /\ mainPc = "failed"
    /\ mainPc' = "connected"
    /\ Did("run", NoArg, "None", "none", <<>>, <<>>)
    /\ UNCHANGED <<MainFrame, running, sess, loop, timeout, hold, gLoad, locVars, tmpVars, snapshots>>

\* run() after connect() returned False: it returns and the process ends
RunReturn ==
    /\ mainPc = "failed"
    /\ mainPc' = "exit"
    /\ Did("run", NoArg, "None", "none", <<>>, <<>>)
    /\ UNCHANGED <<MainFrame, running, sess, loop, timeout, hold, gLoad, locVars, tmpVars, snapshots>>

\* connect() has made the client and is about to open the session; the
\* diagnostic run has set the mode and queried the device before
ConnectReady(diag) ==
    /\ client = "Client" /\ connected = FALSE
    /\ route_index = 0
    /\ shadow_config = [counterEnable |-> JBool(FALSE), locationInterval |-> 1]
    /\ test_counter = 0 /\ running = FALSE /\ diag_mode = diag
    /\ mqtt_host = DefaultHost
    /\ device_id = DefaultId
    /\ topic_d2c = JStr(FallbackD2c(Prefix, DefaultId))
    /\ topic_c2d = JStr(FallbackC2d(Prefix, DefaultId))
    /\ sess = "closed" /\ loop = FALSE /\ cbPc = "idle" /\ inbox = <<>>
    /\ mainPc = "tcp" /\ timeout = ConnectTimeout /\ hold = 0 /\ gLoad = 0
    /\ locPc = "unstarted" /\ locWin = 0 /\ locDone = 0 /\ locLoad = 0
    /\ tmpPc = "unstarted" /\ tmpWin = 0 /\ tmpDone = 0
    /\ key_file = 1 /\ cert_file = 1 /\ ca_file = TRUE /\ gens = 1
    /\ info_file = JsonFile(json_dump(Info(mqtt_host, topic_d2c, topic_c2d)))
    /\ registered = TRUE
    /\ apiLog = IF diag THEN <<"GET /v1/devices">> ELSE <<>>
    /\ saved = <<Info(mqtt_host, topic_d2c, topic_c2d)>>
    /\ op = "init" /\ arg = NoArg /\ ret = "None" /\ raised = "none"
    /\ sent = <<>> /\ subd = <<>> /\ counts = <<>>
    /\ idxHist = <<0>> /\ acked = FALSE /\ dropped = FALSE
    /\ subscribed = {} /\ snapshots = 0

InitConnect == ConnectReady(FALSE)

NextConnect ==
    \/ \E opened \in BOOLEAN : ConnectTcp(opened)
    \/ ConnectLoopStart
    \/ ConnectPoll
    \/ ConnectVerdict
    \/ ConnectSettle
    \/ \E prc \in PublishRcs : ConnectSnapshot(prc)
    \/ \E prc \in PublishRcs : RunStart(prc)
    \/ RunReturn
    \/ \E rc \in ConnackRcs : OnConnect(rc)
    \/ OnConnectSubscribe
    \/ \E rc \in DisconnectRcs : OnDisconnect(rc)
    \/ Reconnect

SpecConnect == InitConnect /\ [][NextConnect]_vars

\* the main thread is scheduled: a call it makes returns, a sleep ends
MainStep ==
    \/ \E opened \in BOOLEAN : ConnectTcp(opened)
    \/ ConnectLoopStart
    \/ ConnectPoll
    \/ ConnectVerdict
    \/ ConnectSettle
    \/ \E prc \in PublishRcs : ConnectSnapshot(prc)
    \/ \E prc \in PublishRcs : RunStart(prc)
    \/ RunReturn

SpecConnectFair == SpecConnect /\ WF_vars(MainStep)

(***************************************************************************)
(* The cursor under two senders.  send_gnss_location is run by the         *)
(* location loop and by the command g of the keyboard loop, with no lock.  *)
(* Its last statement, self.route_index = (self.route_index + 1) %         *)
(* len(self.route), loads the attribute, calls len and stores the result:  *)
(* the other thread may run between the load and the store.  A sender is   *)
(* at one of: its publish, load (about to load the cursor), store (about   *)
(* to store the new one).                                                  *)
(***************************************************************************)
\* the value stored by the last statement of send_gnss_location
advance(loaded) == (loaded + 1) % Len(route)

CursorFrame == <<client, connected, shadow_config, test_counter, running, diag_mode,
                 mqtt_host, topic_d2c, topic_c2d, device_id, netVars, timeout, hold,
                 tmpVars, fsVars, locWin, locDone, acked, dropped, subscribed,
                 snapshots>>

\* the loop's send_gnss_location up to its last statement
LocSend(prc) ==
    /\ mainPc # "exit" /\ locPc = "tick"
    /\ Len(idxHist) <= MaxLaps * Len(route)
    /\ IF connected
       THEN LET g == send_gnss_location(connected, route_index, prc)
            IN  /\ locPc' = "load"
                /\ Did("_location_loop", NoArg, g.pub, "none", g.out, <<>>)
       ELSE /\ locPc' = "read"
            /\ LoopIdle("_location_loop")
    /\ UNCHANGED <<CursorFrame, mainPc, gLoad, locLoad, route_index, idxHist>>

LocLoad ==
    /\ mainPc # "exit" /\ locPc = "load"
    /\ locLoad' = route_index
    /\ locPc' = "store"
    /\ LoopIdle("_location_loop")
    /\ UNCHANGED <<CursorFrame, mainPc, gLoad, route_index, idxHist>>

\* the store, and the test of counterEnable that follows the call
LocStore(prc) ==
    /\ mainPc # "exit" /\ locPc = "store"
    /\ route_index' = advance(locLoad)
    /\ idxHist' = Append(idxHist, advance(locLoad))
    /\ locLoad' = 0
    /\ locPc' = "read"
    /\ IF PyTruthy(shadow_config.counterEnable)
       THEN LET c == send_test_counter(connected, test_counter, prc)
            IN  Did("_location_loop", NoArg, c.pub, "none", c.out, <<>>)
       ELSE LoopIdle("_location_loop")
    /\ UNCHANGED <<CursorFrame, mainPc, gLoad>>

\* the command g: send_gnss_location up to its last statement
KeyGSend(prc) ==
    /\ mainPc = "kbd" /\ running
    /\ Len(idxHist) <= MaxLaps * Len(route)
    /\ LET g == send_gnss_location(connected, route_index, prc)
       IN  Did("send_gnss_location", NoArg, g.pub, "none", g.out, <<>>)
    /\ mainPc' = "g_load"
    /\ UNCHANGED <<CursorFrame, gLoad, locPc, locLoad, route_index, idxHist>>

KeyGLoad ==
    /\ mainPc = "g_load"
    /\ gLoad' = route_index
    /\ mainPc' = "g_store"
    /\ Did("send_gnss_location", NoArg, ret, "none", <<>>, <<>>)
    /\ UNCHANGED <<CursorFrame, locPc, locLoad, route_index, idxHist>>

KeyGStore ==
    /\ mainPc = "g_store"
    /\ route_index' = advance(gLoad)
    /\ idxHist' = Append(idxHist, advance(gLoad))
    /\ gLoad' = 0
    /\ mainPc' = "kbd"
    /\ Did("send_gnss_location", NoArg, "None", "none", <<>>, <<>>)
    /\ UNCHANGED <<CursorFrame, locPc, locLoad>>

NextCursor ==
    \/ LocWarmup \/ LocHead \/ LocRead \/ LocWait
    \/ \E prc \in PublishRcs : LocSend(prc)
    \/ LocLoad
    \/ \E prc \in PublishRcs : LocStore(prc)
    \/ \E prc \in PublishRcs : KeyGSend(prc)
    \/ KeyGLoad
    \/ KeyGStore
    \/ KeyQ
    \/ Disconnect

SpecCursor == Steady /\ [][NextCursor]_vars

(***************************************************************************)
(* One tick of the location loop, read by read.  The connected flag is     *)
(* written by the network thread and the configuration by _on_message      *)
(* while the loop runs, so each read of them is a step of its own: the     *)
(* test "if self.connected", the flag test inside each _publish_d2c, and   *)
(* the read of counterEnable.  Inside a tick the loop is at one of: tick   *)
(* (the test of the flag), gnss (send_gnss_location), toggle (the read of  *)
(* counterEnable), count (send_test_counter up to its publish), count_inc  *)
(* (the increment that follows a successful publish).                      *)
(***************************************************************************)
\* mutant: the counter is sent on every tick
counter_due_always(sc) == TRUE

\* self.shadow_config.get("counterEnable", False)
counter_due(sc) == PyTruthy(sc.counterEnable)

TickFrame == <<client, connected, shadow_config, running, diag_mode, mqtt_host,
               topic_d2c, topic_c2d, device_id, netVars, mainVars, tmpVars, fsVars,
               locWin, locDone, locLoad, acked, dropped, subscribed, snapshots>>

\* "if self.connected"
LocTest ==
    /\ mainPc # "exit" /\ locPc = "tick"
    /\ locPc' = IF connected THEN "gnss" ELSE "read"
    /\ LoopIdle("_location_loop")
    /\ UNCHANGED <<TickFrame, route_index, test_counter, idxHist>>

\* self.send_gnss_location()
LocGnss(prc) ==
    /\ mainPc # "exit" /\ locPc = "gnss"
    /\ Len(idxHist) <= MaxLaps * Len(route)
    /\ LET g == send_gnss_location(connected, route_index, prc)
       IN  /\ route_index' = g.route_index
           /\ idxHist' = Append(idxHist, g.route_index)
           /\ Did("_location_loop", NoArg, g.pub, "none", g.out, <<>>)
    /\ locPc' = "toggle"
    /\ UNCHANGED <<TickFrame, test_counter>>

\* "if self.shadow_config.get("counterEnable", False)"
LocToggle ==
    /\ mainPc # "exit" /\ locPc = "toggle"
    /\ locPc' = IF counter_due(shadow_config) THEN "count" ELSE "read"
    /\ LoopIdle("_location_loop")
    /\ UNCHANGED <<TickFrame, route_index, test_counter, idxHist>>

\* send_test_counter up to the return of _publish_d2c
LocCount(prc) ==
    /\ mainPc # "exit" /\ locPc = "count"
    /\ test_counter < MaxCount
    /\ LET p == _publish_d2c(connected, Msg("COUNT", "DATA", <<>>, test_counter), prc)
       IN  /\ locPc' = IF p.ret = "True" THEN "count_inc" ELSE "read"
           /\ Did("_location_loop", NoArg, p.ret, "none", p.out, <<>>)
    /\ UNCHANGED <<TickFrame, route_index, test_counter, idxHist>>

\* self.test_counter += 1
LocCountInc ==
    /\ mainPc # "exit" /\ locPc = "count_inc"
    /\ test_counter' = test_counter + 1
    /\ locPc' = "read"
    /\ LoopIdle("_location_loop")
    /\ UNCHANGED <<TickFrame, route_index, idxHist>>

\* updates of the counter toggle sent to a running simulator
ToggleUpdates ==
    {Payload("CONFIG", "CMD", Dict(ce, Absent, Absent)) : ce \in {JBool(TRUE), JBool(FALSE)}}

LocTickSteps ==
    \/ LocTest
    \/ \E prc \in PublishRcs : LocGnss(prc)
    \/ LocToggle
    \/ \E prc \in PublishRcs : LocCount(prc)
    \/ LocCountInc

\* the location loop, the toggle switched on and off, the session lost and
\* found again
NextTick ==
    \/ LocWarmup \/ LocHead \/ LocRead \/ LocWait
    \/ LocTickSteps
    \/ \E payload \in ToggleUpdates :
           OnMessage(C2dTopic(device_id), payload, MQTT_ERR_SUCCESS)
    \/ \E rc \in DisconnectRcs : OnDisconnect(rc)
    \/ Reconnect
    \/ \E rc \in ConnackRcs : OnConnect(rc)
    \/ OnConnectSubscribe

SpecTick == Steady /\ [][NextTick]_vars

(***************************************************************************)
(* The counter under the location loop and the command c.  Both threads    *)
(* run send_test_counter on the same test_counter with no lock, so the     *)
(* command is split as the loop's call is: the message built from the      *)
(* counter and published (lines 533-538), then the increment (line 540).   *)
(***************************************************************************)
CounterFrame == <<client, connected, shadow_config, running, diag_mode, mqtt_host,
                  topic_d2c, topic_c2d, device_id, netVars, timeout, hold, gLoad,
                  locVars, tmpVars, fsVars, route_index, cumVars>>

\* the command c: send_test_counter up to the return of _publish_d2c
KeyCPublish(prc) ==
    /\ mainPc = "kbd" /\ running
    /\ test_counter < MaxCount
    /\ LET p == _publish_d2c(connected, Msg("COUNT", "DATA", <<>>, test_counter), prc)
       IN  /\ mainPc' = IF p.ret = "True" THEN "c_inc" ELSE "kbd"
           /\ Did("send_test_counter", NoArg, p.ret, "none", p.out, <<>>)
    /\ UNCHANGED <<CounterFrame, test_counter>>

\* self.test_counter += 1
KeyCInc ==
    /\ mainPc = "c_inc"
    /\ test_counter' = test_counter + 1
    /\ mainPc' = "kbd"
    /\ Did("send_test_counter", NoArg, "None", "none", <<>>, <<>>)
    /\ UNCHANGED CounterFrame

NextCounter ==
    \/ LocWarmup \/ LocHead \/ LocRead \/ LocWait
    \/ LocTickSteps
    \/ \E payload \in ToggleUpdates :
           OnMessage(C2dTopic(device_id), payload, MQTT_ERR_SUCCESS)
    \/ \E prc \in PublishRcs : KeyCPublish(prc)
    \/ KeyCInc

SpecCounter == Steady /\ [][NextCounter]_vars

(***************************************************************************)
(* Shutdown, statement by statement.  run() clears the running flag (line  *)
(* 716) and calls disconnect(): loop_stop (646), then client.disconnect    *)
(* (647); run() returns, and the process ends when the interpreter shuts   *)
(* down, which is when the daemon threads of the producers stop.  They are *)
(* not joined.  disconnect() does not write the connected flag; whether    *)
(* the transport runs _on_disconnect in the calling thread when the loop   *)
(* is stopped is the transport's matter, so both outcomes are taken.  The  *)
(* temperature producer is modelled read by read: the test of line 736,    *)
(* the flag test of _publish_d2c (480) and client.publish (484).           *)
(***************************************************************************)
ShutdownFrame == <<client, route_index, shadow_config, test_counter, running,
                   diag_mode, mqtt_host, topic_d2c, topic_c2d, device_id, cbPc,
                   inbox, timeout, hold, gLoad, locVars, tmpVars, fsVars, cumVars>>

\* self.client.loop_stop(): waits for the network thread to end
DisconnectStop ==
    /\ mainPc = "stopping" /\ cbPc = "idle"
    /\ loop' = FALSE
    /\ mainPc' = "closing"
    /\ Did("disconnect", NoArg, "None", "none", <<>>, <<>>)
    /\ UNCHANGED <<ShutdownFrame, connected, sess>>

\* self.client.disconnect(), and disconnect() and run() return
DisconnectClose(callback) ==
    /\ mainPc = "closing"
    /\ sess' = "closed"
    /\ connected' = IF callback THEN _on_disconnect(0).connected ELSE connected
    /\ mainPc' = "returned"
    /\ Did("disconnect", NoArg, "None", "none", <<>>, <<>>)
    /\ UNCHANGED <<ShutdownFrame, loop>>

\* the interpreter shuts down: the daemon threads end with it
ProcessExit ==
    /\ mainPc = "returned"
    /\ mainPc' = "exit"
    /\ Did("exit", NoArg, "None", "none", <<>>, <<>>)
    /\ UNCHANGED <<ShutdownFrame, connected, sess, loop>>

\* "if self.connected" of _temperature_loop
TmpTest ==
    /\ mainPc # "exit" /\ tmpPc = "tick"
    /\ tmpPc' = IF connected THEN "flag" ELSE "read"
    /\ LoopIdle("_temperature_loop")
    /\ UNCHANGED <<TmpFrame, tmpWin, tmpDone>>

\* send_temperature up to "if not self.connected" of _publish_d2c
TmpFlag ==
    /\ mainPc # "exit" /\ tmpPc = "flag"
    /\ tmpPc' = IF ~connected THEN "read" ELSE "publish"
    /\ Did("_temperature_loop", NoArg, "False", "none", <<>>, <<>>)
    /\ UNCHANGED <<TmpFrame, tmpWin, tmpDone>>

\* self.client.publish of _publish_d2c, and its return
TmpPublish(prc) ==
    /\ mainPc # "exit" /\ tmpPc = "publish"
    /\ tmpPc' = "read"
    /\ LET p == _publish_d2c(TRUE, Msg("TEMP", "DATA", <<>>, 0), prc)
       IN  Did("_temperature_loop", NoArg, p.ret, "none", p.out, <<>>)
    /\ UNCHANGED <<TmpFrame, tmpWin, tmpDone>>

\* both producers read by read (the counter toggle stays off, as it is at
\* the start), a lost session, and shutdown
NextShutdown ==
    \/ LocWarmup \/ LocHead \/ LocRead \/ LocWait
    \/ LocTest \/ LocToggle
    \/ \E prc \in PublishRcs : LocGnss(prc)
    \/ TmpWarmup \/ TmpHead \/ TmpRead \/ TmpWait
    \/ TmpTest \/ TmpFlag
    \/ \E prc \in PublishRcs : TmpPublish(prc)
    \/ \E rc \in DisconnectRcs : OnDisconnect(rc)
    \/ KeyQ
    \/ DisconnectStop
    \/ \E callback \in BOOLEAN : DisconnectClose(callback)
    \/ ProcessExit

SpecShutdown == Steady /\ [][NextShutdown]_vars

\* configuration updates of both fields, some with an interval that int()
\* refuses
MixedUpdates ==
    {Payload("CONFIG", "CMD", Dict(JBool(TRUE), JStr(<<"x">>), Absent)),
     Payload("CONFIG", "CMD", Dict(Absent, JNull, Absent)),
     Payload("CONFIG", "CMD", Dict(Absent, JStr(<<"2">>), Absent)),
     Payload("CONFIG", "CMD", Dict(JBool(FALSE), JInt(MaxInterval), Absent)),
     Payload("CONFIG", "CMD", Dict(JStr(<<"on">>), Absent, Absent))}

\* the location loop reading the configuration while _on_message writes it
NextReads ==
    \/ LocWarmup \/ LocHead \/ LocRead \/ LocWait
    \/ LocTickSteps
    \/ \E payload \in MixedUpdates :
           OnMessage(C2dTopic(device_id), payload, MQTT_ERR_SUCCESS)

SpecReads == Steady /\ [][NextReads]_vars

(***************************************************************************)
(* The diagnostic run (--diag): connect() in diagnostic mode, the          *)
(* observation loop, the subscribe probe, disconnect().  After connect()   *)
(* the main thread is at one of: hold (the observation loop), held (the    *)
(* test after it), clear (about to clear the mode), probe (about to        *)
(* subscribe), probe_wait, stopping, exit.                                 *)
(***************************************************************************)
\* one pass of "for i in range(10)": a sleep of a second, then the loop
\* is left when the flag is false or the last second was counted
observe(conn, i) ==
    IF ~conn THEN [pc |-> "held", hold |-> i]
    ELSE IF i + 1 = HoldWindow THEN [pc |-> "held", hold |-> i + 1]
    ELSE [pc |-> "hold", hold |-> i + 1]

DiagFrame == <<client, connected, route_index, shadow_config, test_counter, running,
               mqtt_host, topic_d2c, topic_c2d, device_id, netVars, timeout, gLoad,
               locVars, tmpVars, fsVars, idxHist, acked, dropped, snapshots>>

DiagStep == Did("main", NoArg, "None", "none", <<>>, <<>>)

\* connect() returned True
DiagBegin ==
    /\ mainPc = "connected" /\ diag_mode
    /\ mainPc' = "hold" /\ hold' = 0
    /\ DiagStep
    /\ UNCHANGED <<DiagFrame, diag_mode, subscribed>>

\* connect() returned False: sys.exit(1)
DiagExit ==
    /\ mainPc = "failed" /\ diag_mode
    /\ mainPc' = "exit"
    /\ DiagStep
    /\ UNCHANGED <<DiagFrame, diag_mode, hold, subscribed>>

DiagHold ==
    /\ mainPc = "hold"
    /\ LET o == observe(connected, hold)
       IN  mainPc' = o.pc /\ hold' = o.hold
    /\ DiagStep
    /\ UNCHANGED <<DiagFrame, diag_mode, subscribed>>

\* "if simulator.connected"
DiagVerdict ==
    /\ mainPc = "held"
    /\ mainPc' = IF connected THEN "clear" ELSE "stopping"
    /\ DiagStep
    /\ UNCHANGED <<DiagFrame, diag_mode, hold, subscribed>>

\* simulator._diag_mode = False
DiagClear ==
    /\ mainPc = "clear"
    /\ diag_mode' = FALSE
    /\ mainPc' = "probe"
    /\ DiagStep
    /\ UNCHANGED <<DiagFrame, hold, subscribed>>

\* simulator.client.subscribe(simulator.topic_c2d)
DiagProbe ==
    /\ mainPc = "probe"
    /\ subscribed' = subscribed \cup {topic_c2d}
    /\ mainPc' = "probe_wait"
    /\ Did("main", NoArg, "None", "none", <<>>, <<topic_c2d>>)
    /\ UNCHANGED <<DiagFrame, diag_mode, hold>>

\* time.sleep(3) and the report
DiagProbeWait ==
    /\ mainPc = "probe_wait"
    /\ mainPc' = "stopping"
    /\ DiagStep
    /\ UNCHANGED <<DiagFrame, diag_mode, hold, subscribed>>

InitDiag == ConnectReady(TRUE)

NextDiag ==
    \/ \E opened \in BOOLEAN : ConnectTcp(opened)
    \/ ConnectLoopStart
    \/ ConnectPoll
    \/ ConnectVerdict
    \/ DiagBegin
    \/ DiagExit
    \/ DiagHold
    \/ DiagVerdict
    \/ DiagClear
    \/ DiagProbe
    \/ DiagProbeWait
    \/ Disconnect
    \/ \E rc \in ConnackRcs : OnConnect(rc)
    \/ OnConnectSubscribe
    \/ \E rc \in DisconnectRcs : OnDisconnect(rc)
    \/ Reconnect

SpecDiag == InitDiag /\ [][NextDiag]_vars

(***************************************************************************)
(* Set-up: run() from its start to the client that connect() makes.  The   *)
(* main thread is at one of: run (the test of certs.exists), provision     *)
(* (download_ca and the second test), get_account, keygen, certgen,        *)
(* onboard, connect (the test of certs.exists in connect()), resolve       *)
(* (_load_mqtt_info and the assignments after it), tcp, failed, exit.      *)
(* The operator may delete files at any time and start the program again.  *)
(***************************************************************************)
\* mutant: the trust anchor is not looked for
exists_without_ca(key, cert, ca) == key # 0 /\ cert # 0

\* DeviceCerts.exists
exists(key, cert, ca) == key # 0 /\ cert # 0 /\ ca

RECURSIVE rstrip_slash(_)
\* str.rstrip("/")
rstrip_slash(s) ==
    IF s # <<>> /\ s[Len(s)] = "/" THEN rstrip_slash(SubSeq(s, 1, Len(s) - 1)) ELSE s

\* answers of GET /v1/account
AccountResponses ==
    {[status |-> 200, mqttEndpoint |-> JStr(<<"h">>), mqttTopicPrefix |-> JStr(<<"p", "/">>)],
     [status |-> 200, mqttEndpoint |-> Absent, mqttTopicPrefix |-> Absent],
     [status |-> 401, mqttEndpoint |-> Absent, mqttTopicPrefix |-> Absent]}

\* answers of GET /v1/devices/<id>: the topics of the shadow's pairing
DeviceResponses ==
    {[status |-> 200, d2c |-> JStr(<<"q", "/", "d">>), c2d |-> JStr(<<"q", "/", "r">>)],
     [status |-> 200, d2c |-> JStr(<<"q", "/", "d">>), c2d |-> Absent],
     [status |-> 404, d2c |-> Absent, c2d |-> Absent]}

\* answers of POST /v1/devices: 0 is a request that got no answer
OnboardCodes == {200, 409, 500, 0}

NoResult(e, log) == [exc |-> e, info |-> <<>>, log |-> log, save |-> <<>>]

\* mutant: the cache is not looked at
_load_mqtt_info_fresh(file, id, account, device) ==
    LET host == IF account.mqttEndpoint = Absent THEN DefaultHost
                ELSE account.mqttEndpoint
        info == Info(host, JStr(FallbackD2c(<<>>, id)), JStr(FallbackC2d(<<>>, id)))
    IN  [exc |-> "none", info |-> <<info>>,
         log |-> <<"GET /v1/account", "GET /v1/devices">>, save |-> <<info>>]

\* [exc, info, log, save]: the exception, else the dict returned; the
\* requests made; the info handed to _save_mqtt_info
_load_mqtt_info(file, id, account, device) ==
    LET cached == json_load(file.text)
        host == IF account.mqttEndpoint = Absent THEN DefaultHost
                ELSE account.mqttEndpoint
        d2c == IF device.d2c = Absent THEN JStr(<<>>) ELSE device.d2c
        c2d == IF device.c2d = Absent THEN JStr(<<>>) ELSE device.c2d
        prefix == rstrip_slash(IF account.mqttTopicPrefix = Absent THEN <<>>
                               ELSE account.mqttTopicPrefix.s)
        info == IF ~PyTruthy(d2c) \/ ~PyTruthy(c2d)
                THEN Info(host, JStr(FallbackD2c(prefix, id)), JStr(FallbackC2d(prefix, id)))
                ELSE Info(host, d2c, c2d)
    IN  IF file.state = "corrupt" THEN NoResult("JSONDecodeError", <<>>)
        ELSE IF /\ file.state = "json"
                /\ PyTruthy(dict_get(cached, "topic_d2c"))
                /\ PyTruthy(dict_get(cached, "topic_c2d"))
        THEN [exc |-> "none", info |-> <<cached>>, log |-> <<>>, save |-> <<>>]
        ELSE IF account.status # 200 THEN NoResult("HTTPError", <<"GET /v1/account">>)
        ELSE IF device.status # 200
        THEN NoResult("HTTPError", <<"GET /v1/account", "GET /v1/devices">>)
        ELSE [exc |-> "none", info |-> <<info>>,
              log |-> <<"GET /v1/account", "GET /v1/devices">>, save |-> <<info>>]

\* mutant: the files of a device the backend already holds are removed
onboard_device_cleanup(code, key, cert) ==
    CASE code = 200 -> [ret |-> "True", exc |-> "none", key |-> key, cert |-> cert]
      [] code = 409 -> [ret |-> "False", exc |-> "none", key |-> 0, cert |-> 0]
      [] code = 0 -> [ret |-> "None", exc |-> "URLError", key |-> key, cert |-> cert]
      [] OTHER -> [ret |-> "False", exc |-> "none", key |-> key, cert |-> cert]

\* the upload of provision_device and its handlers: [ret, exc, key, cert]
onboard_device(code, key, cert) ==
    CASE code = 200 -> [ret |-> "True", exc |-> "none", key |-> key, cert |-> cert]
      [] code = 0 -> [ret |-> "None", exc |-> "URLError", key |-> key, cert |-> cert]
      [] OTHER -> [ret |-> "False", exc |-> "none", key |-> key, cert |-> cert]

SetupFrame == <<connected, route_index, shadow_config, test_counter, running,
                diag_mode, device_id, netVars, timeout, hold, gLoad, locVars, tmpVars, cumVars>>

Escaped(name, e) == Did(name, NoArg, "None", e, <<>>, <<>>)

\* mutant: a run that finds the files of a device the backend does not hold
\* registers it again
RunCheck_reregister ==
    /\ mainPc = "run"
    /\ mainPc' = IF ~exists(key_file, cert_file, ca_file) THEN "provision"
                 ELSE IF ~registered THEN "onboard" ELSE "connect"
    /\ Did("run", NoArg, "None", "none", <<>>, <<>>)
    /\ UNCHANGED <<SetupFrame, client, mqtt_host, topic_d2c, topic_c2d, fsVars>>

\* run(): "if not self.certs.exists"
RunCheck ==
    /\ mainPc = "run"
    /\ mainPc' = IF exists(key_file, cert_file, ca_file) THEN "connect" ELSE "provision"
    /\ Did("run", NoArg, "None", "none", <<>>, <<>>)
    /\ UNCHANGED <<SetupFrame, client, mqtt_host, topic_d2c, topic_c2d, fsVars>>

\* mutant: existing credentials are not reused
ProvisionStart_again(fetched) ==
    /\ mainPc = "provision"
    /\ IF ~ca_file /\ ~fetched
       THEN /\ mainPc' = "exit" /\ ca_file' = ca_file
            /\ Escaped("provision_device", "URLError")
       ELSE /\ ca_file' = TRUE
            /\ mainPc' = "get_account"
            /\ Did("provision_device", NoArg, "None", "none", <<>>, <<>>)
    /\ UNCHANGED <<SetupFrame, client, mqtt_host, topic_d2c, topic_c2d, key_file,
                   cert_file, info_file, gens, registered, apiLog, saved>>

\* provision_device up to "return True" or to the account query
ProvisionStart(fetched) ==
    /\ mainPc = "provision"
    /\ IF ~ca_file /\ ~fetched
       THEN /\ mainPc' = "exit" /\ ca_file' = ca_file
            /\ Escaped("provision_device", "URLError")
       ELSE /\ ca_file' = TRUE
            /\ IF exists(key_file, cert_file, TRUE)
               THEN /\ mainPc' = "connect"
                    /\ Did("provision_device", NoArg, "True", "none", <<>>, <<>>)
               ELSE /\ mainPc' = "get_account"
                    /\ Did("provision_device", NoArg, "None", "none", <<>>, <<>>)
    /\ UNCHANGED <<SetupFrame, client, mqtt_host, topic_d2c, topic_c2d, key_file,
                   cert_file, info_file, gens, registered, apiLog, saved>>

ProvisionAccount(account) ==
    /\ mainPc = "get_account"
    /\ apiLog' = Append(apiLog, "GET /v1/account")
    /\ IF account.status # 200
       THEN /\ mainPc' = "exit" /\ mqtt_host' = mqtt_host
            /\ Escaped("provision_device", "HTTPError")
       ELSE /\ mainPc' = "keygen"
            /\ mqtt_host' = IF account.mqttEndpoint = Absent THEN DefaultHost
                            ELSE account.mqttEndpoint
            /\ Did("provision_device", NoArg, "None", "none", <<>>, <<>>)
    /\ UNCHANGED <<SetupFrame, client, topic_d2c, topic_c2d, key_file, cert_file,
                   ca_file, info_file, gens, registered, saved>>

\* openssl ecparam -genkey
Keygen(made) ==
    /\ mainPc = "keygen" /\ gens < MaxGen
    /\ IF made
       THEN /\ gens' = gens + 1 /\ key_file' = gens + 1 /\ mainPc' = "certgen"
            /\ Did("provision_device", NoArg, "None", "none", <<>>, <<>>)
       ELSE /\ gens' = gens /\ key_file' = key_file /\ mainPc' = "exit"
            /\ Escaped("provision_device", "RuntimeError")
    /\ UNCHANGED <<SetupFrame, client, mqtt_host, topic_d2c, topic_c2d, cert_file,
                   ca_file, info_file, registered, apiLog, saved>>

\* openssl req -new -x509 -key <key>
Certgen(made) ==
    /\ mainPc = "certgen"
    /\ IF made
       THEN /\ cert_file' = key_file /\ mainPc' = "onboard"
            /\ Did("provision_device", NoArg, "None", "none", <<>>, <<>>)
       ELSE /\ cert_file' = cert_file /\ mainPc' = "exit"
            /\ Escaped("provision_device", "RuntimeError")
    /\ UNCHANGED <<SetupFrame, client, mqtt_host, topic_d2c, topic_c2d, key_file,
                   ca_file, info_file, gens, registered, apiLog, saved>>

\* the backend answers 200 for a device it does not hold and 409 for one it
\* holds
Onboard(code) ==
    /\ mainPc = "onboard"
    /\ code = 200 => ~registered
    /\ code = 409 => registered
    /\ apiLog' = Append(apiLog, "POST /v1/devices")
    /\ registered' = (registered \/ code = 200)
    /\ LET r == onboard_device(code, key_file, cert_file)
       IN  /\ key_file' = r.key /\ cert_file' = r.cert
           /\ mainPc' = IF r.ret = "True" THEN "connect" ELSE "exit"
           /\ Did("provision_device", [NoArg EXCEPT !.rc = code], r.ret, r.exc, <<>>, <<>>)
    /\ UNCHANGED <<SetupFrame, client, mqtt_host, topic_d2c, topic_c2d, ca_file,
                   info_file, gens, saved>>

\* connect(): "if not self.certs.exists: return False"
ConnectCheck ==
    /\ mainPc = "connect"
    /\ IF exists(key_file, cert_file, ca_file)
       THEN /\ mainPc' = "resolve"
            /\ Did("connect", NoArg, "None", "none", <<>>, <<>>)
       ELSE /\ mainPc' = "failed"
            /\ Did("connect", NoArg, "False", "none", <<>>, <<>>)
    /\ UNCHANGED <<SetupFrame, client, mqtt_host, topic_d2c, topic_c2d, fsVars>>

\* connect() from _load_mqtt_info to mqtt.Client(...)
ConnectResolve(account, device) ==
    /\ mainPc = "resolve"
    /\ LET r == _load_mqtt_info(info_file, device_id, account, device)
           e == IF r.exc # "none" THEN r.exc
                ELSE IF "mqtt_host" \notin DOMAIN r.info[1] THEN "KeyError"
                ELSE "none"
       IN  /\ apiLog' = apiLog \o r.log
           /\ IF r.save # <<>>
              THEN info_file' = JsonFile(json_dump(r.save[1])) /\ saved' = r.save
              ELSE UNCHANGED <<info_file, saved>>
           /\ IF e # "none"
              THEN /\ mainPc' = "exit"
                   /\ Escaped("connect", e)
                   /\ UNCHANGED <<client, mqtt_host, topic_d2c, topic_c2d>>
              ELSE /\ mqtt_host' = r.info[1]["mqtt_host"]
                   /\ topic_d2c' = r.info[1]["topic_d2c"]
                   /\ topic_c2d' = r.info[1]["topic_c2d"]
                   /\ client' = "Client"
                   /\ mainPc' = "tcp"
                   /\ Did("connect", NoArg, "None", "none", <<>>, <<>>)
    /\ UNCHANGED <<SetupFrame, key_file, cert_file, ca_file, gens, registered>>

\* the operator removes a file
ExternalDelete(file) ==
    /\ key_file' = IF file = "key" THEN 0 ELSE key_file
    /\ cert_file' = IF file = "cert" THEN 0 ELSE cert_file
    /\ ca_file' = IF file = "ca" THEN FALSE ELSE ca_file
    /\ info_file' = IF file = "info" THEN NoFile ELSE info_file
    /\ <<key_file, cert_file, ca_file, info_file>>' # <<key_file, cert_file, ca_file, info_file>>
    /\ Did("rm", NoArg, "None", "none", <<>>, <<>>)
    /\ UNCHANGED <<fieldVars, connected, netVars, mainVars, locVars, tmpVars, gens,
                   registered, apiLog, saved, cumVars>>

\* the state after DeviceSimulator.__init__
Constructed ==
    /\ client = "None" /\ connected = FALSE
    /\ route_index = 0
    /\ shadow_config = [counterEnable |-> JBool(FALSE), locationInterval |-> 1]
    /\ test_counter = 0 /\ running = FALSE /\ diag_mode = FALSE
    /\ mqtt_host = JNull /\ topic_d2c = JNull /\ topic_c2d = JNull
    /\ device_id = DefaultId
    /\ sess = "closed" /\ loop = FALSE /\ cbPc = "idle" /\ inbox = <<>>
    /\ mainPc = "run" /\ timeout = ConnectTimeout /\ hold = 0 /\ gLoad = 0
    /\ locPc = "unstarted" /\ locWin = 0 /\ locDone = 0 /\ locLoad = 0
    /\ tmpPc = "unstarted" /\ tmpWin = 0 /\ tmpDone = 0
    /\ apiLog = <<>>
    /\ op = "init" /\ arg = NoArg /\ ret = "None" /\ raised = "none"
    /\ sent = <<>> /\ subd = <<>> /\ counts = <<>>
    /\ idxHist = <<0>> /\ acked = FALSE /\ dropped = FALSE
    /\ subscribed = {} /\ snapshots = 0

\* the program is started again: the files stay
Restart ==
    /\ mainPc \in {"exit", "failed", "tcp"}
    /\ client' = "None" /\ connected' = FALSE
    /\ route_index' = 0
    /\ shadow_config' = [counterEnable |-> JBool(FALSE), locationInterval |-> 1]
    /\ test_counter' = 0 /\ running' = FALSE /\ diag_mode' = FALSE
    /\ mqtt_host' = JNull /\ topic_d2c' = JNull /\ topic_c2d' = JNull
    /\ device_id' = DefaultId
    /\ sess' = "closed" /\ loop' = FALSE /\ cbPc' = "idle" /\ inbox' = <<>>
    /\ mainPc' = "run" /\ timeout' = ConnectTimeout /\ hold' = 0 /\ gLoad' = 0
    /\ locPc' = "unstarted" /\ locWin' = 0 /\ locDone' = 0 /\ locLoad' = 0
    /\ tmpPc' = "unstarted" /\ tmpWin' = 0 /\ tmpDone' = 0
    /\ apiLog' = <<>>
    /\ Did("init", NoArg, "None", "none", <<>>, <<>>)
    /\ idxHist' = <<0>> /\ acked' = FALSE /\ dropped' = FALSE
    /\ subscribed' = {} /\ snapshots' = 0
    /\ UNCHANGED <<key_file, cert_file, ca_file, info_file, gens, registered, saved>>

\* caches left by earlier versions or edited by hand
StaleCaches ==
    {NoFile, CorruptFile, JsonFile(<<>>),
     JsonFile(<< <<"topic_d2c", JStr(<<"o", "/", "d">>)>>,
                 <<"topic_c2d", JStr(<<"o", "/", "r">>)>> >>),
     JsonFile(<< <<"mqtt_host", JStr(<<"h">>)>>, <<"topic_d2c", JStr(<<"o", "/", "d">>)>>,
                 <<"topic_c2d", JStr(<<>>)>> >>),
     JsonFile(<< <<"mqtt_host", JNull>>, <<"topic_d2c", JStr(<<"o", "/", "d">>)>>,
                 <<"topic_c2d", JStr(<<"o", "/", "r">>)>>, <<"note", JInt(1)>> >>)}

\* a first start on a machine that may hold files of earlier use
InitSetup ==
    /\ Constructed
    /\ key_file \in {0, 1} /\ cert_file \in {0, 1} /\ ca_file \in BOOLEAN
    /\ gens = 1
    /\ info_file \in StaleCaches
    /\ registered \in BOOLEAN
    /\ saved = <<>>

NextSetup ==
    \/ RunCheck
    \/ \E fetched \in BOOLEAN : ProvisionStart(fetched)
    \/ \E account \in AccountResponses : ProvisionAccount(account)
    \/ \E made \in BOOLEAN : Keygen(made)
    \/ \E made \in BOOLEAN : Certgen(made)
    \/ \E code \in OnboardCodes : Onboard(code)
    \/ ConnectCheck
    \/ \E account \in AccountResponses, device \in DeviceResponses :
           ConnectResolve(account, device)
    \/ \E file \in {"key", "cert", "ca", "info"} : ExternalDelete(file)
    \/ Restart

SpecSetup == InitSetup /\ [][NextSetup]_vars

(***************************************************************************)
(* Steps, named for the properties below.                                  *)
(***************************************************************************)
StepKey == \E prc \in PublishRcs : KeyA(prc) \/ KeyT(prc) \/ KeyG(prc) \/ KeyC(prc)

StepOnMessage == \E prc \in PublishRcs : OnMessage(arg'.topic, arg'.payload, prc)

IsConfigUpdate(payload) ==
    /\ payload.shape = "dict" /\ payload.appId = "CONFIG"
    /\ payload.data.t \in {"dict", "absent"}

IsModemCmd(payload) ==
    payload.shape = "dict" /\ payload.appId = "MODEM" /\ payload.messageType = "CMD"

\* the command is a string that the lookup of _send_at_response answers
Supported(id, command) ==
    command.t = "str" /\ strip(command.s) \in DOMAIN responses(id)

(***************************************************************************)
(* Properties.                                                             *)
(***************************************************************************)

\* C1: whenever the connected flag is false, a sender's _publish_d2c call
\* returns False, hands nothing to client.publish and raises nothing, and no
\* field of the simulator changes (but the cursor, which send_gnss_location
\* itself advances after the call).
C1_PublishFailsClosed ==
    [][(~connected /\ StepKey) =>
          /\ ret' = "False" /\ sent' = <<>> /\ raised' = "none"
          /\ UNCHANGED <<client, connected, shadow_config, test_counter, running,
                         diag_mode, mqtt_host, topic_d2c, topic_c2d, device_id>>]_vars

C1_Witness ==
    /\ ~connected /\ ret = "False" /\ sent = <<>>
    /\ op \in {"send_alert", "send_temperature", "send_gnss_location", "send_test_counter"}

\* C2: a CONFIG update that holds only locationInterval leaves counterEnable
\* as it was, one that holds only counterEnable leaves locationInterval as it
\* was, and one that holds neither changes nothing.
C2_FieldIndependence ==
    [][(StepOnMessage /\ IsConfigUpdate(arg'.payload)) =>
          LET data == arg'.payload.data
          IN  /\ data.ce = Absent =>
                    shadow_config'.counterEnable = shadow_config.counterEnable
              /\ data.li = Absent =>
                    shadow_config'.locationInterval = shadow_config.locationInterval
              /\ (data.ce = Absent /\ data.li = Absent) =>
                    UNCHANGED <<fieldVars, connected, sess, loop, mainVars>>]_vars

C2_Witness ==
    /\ op = "_on_message" /\ _is_c2d_topic(device_id, arg.topic)
    /\ IsConfigUpdate(arg.payload)
    /\ arg.payload.data.ce = Absent /\ arg.payload.data.li = JInt(1)
    /\ shadow_config.locationInterval = 1
    /\ shadow_config.counterEnable = JBool(TRUE)

\* C3: the cursor is always within [0, N), N the length of the route, and
\* from every index, after exactly N send_gnss_location calls it is at that
\* index again (idxHist[k] is the cursor after k - 1 calls).
C3_CursorWraps ==
    /\ route_index \in 0..(Len(route) - 1)
    /\ route_index = idxHist[Len(idxHist)]
    /\ \A k \in 1..Len(idxHist) :
           k + Len(route) <= Len(idxHist) => idxHist[k + Len(route)] = idxHist[k]

C3_Witness ==
    /\ Len(idxHist) = MaxLaps * Len(route) + 1
    /\ {idxHist[k] : k \in 1..Len(route)} = 0..(Len(route) - 1)
    /\ route_index = 0

\* C4: every (MODEM, CMD) command on the command channel whose command value
\* is not one of the supported query strings is answered with one reply whose
\* data is "ERROR", and the handler raises nothing.
C4_UnknownCommandGetsError ==
    (/\ op = "_on_message" /\ _is_c2d_topic(device_id, arg.topic)
     /\ IsModemCmd(arg.payload)
     /\ ~Supported(device_id,
                   IF arg.payload.data.t = "absent" THEN JStr(<<>>) ELSE arg.payload.data))
    => /\ raised = "none"
       /\ sent = <<Msg("MODEM", "DATA", <<"ERROR">>, 0)>>
\* the topic ends with "/r" and holds the segment "/m/d/<id>/"
CommandChannel(id, topic) ==
    LET segment == <<"/", "m", "/", "d", "/">> \o id \o <<"/">>
        n == Len(topic)
    IN  /\ n >= 2 /\ topic[n - 1] = "/" /\ topic[n] = "r"
        /\ \E i \in 1..n : i + Len(segment) - 1 <= n
                           /\ \A k \in 1..Len(segment) : topic[i + k - 1] = segment[k]

ExampleTopic == <<"/", "x", "/", "m", "/", "d", "/", "d", "1", "/", "x", "/", "r">>

\* C5: a topic is command-channel for device D exactly when it ends with "/r"
\* and holds the segment "/m/d/D/": the query delivered on such a topic is
\* answered, on any other topic it is ignored; .../m/d/d1/x/r is
\* command-channel for d1 and not for d2.
C5_TopicClassification ==
    /\ _is_c2d_topic(<<"d", "1">>, ExampleTopic)
    /\ ~_is_c2d_topic(<<"d", "2">>, ExampleTopic)
    /\ op = "_on_message" =>
          IF CommandChannel(device_id, arg.topic)
          THEN Len(sent) = 1 /\ sent[1].appId = "MODEM"
          ELSE sent = <<>> /\ ret = "None" /\ raised = "none"

C5_Witness ==
    /\ op = "_on_message" /\ device_id = <<"d", "1">>
    /\ arg.topic = ExampleTopic /\ Len(sent) = 1
\* C6: a config update that changes locationInterval while the location loop
\* is inside a wait window leaves that window alone: staying in the window
\* keeps its length and adds at most one sleep, the window is left for the
\* next cycle only after exactly the number of sleeps read when it began, the
\* loop returns from inside a window only when running is false, and the read
\* that begins a window takes the configuration's current value.
C6_WindowKeepsItsLength ==
    [][/\ (locPc = "window" /\ locPc' = "window") =>
              /\ locWin' = locWin
              /\ locDone' \in {locDone, locDone + 1}
              /\ locDone' <= locWin
       /\ (locPc = "window" /\ locPc' = "head") =>
              locDone = (IF locWin > 0 THEN locWin ELSE 0)
       /\ (locPc = "window" /\ locPc' = "done") => ~running
       /\ (locPc = "window") => locPc' \in {"window", "head", "done"}
       /\ (locPc = "read" /\ locPc' = "window") =>
              /\ locWin' = shadow_config.locationInterval
              /\ locDone' = 0
       /\ StepOnMessage => UNCHANGED locVars]_vars

\* the window of MaxInterval sleeps has run to its end although the interval
\* was changed to 1 meanwhile
C6_Witness ==
    /\ locPc = "window" /\ locWin = MaxInterval /\ locDone = locWin
    /\ shadow_config.locationInterval = 1
StepRefused == \E rc \in ConnackRcs \ {0} : OnConnect(rc)

\* C7: a connect-ack with a non-zero code (5, not authorized, among them)
\* leaves the simulator disconnected and issues no subscribe and no publish;
\* and as long as no connect-ack with code 0 has arrived the simulator is
\* disconnected, has subscribed to nothing and has published no snapshot.
C7_RefusedHandshake ==
    /\ [][StepRefused =>
             /\ ~connected' /\ cbPc' = "idle"
             /\ sent' = <<>> /\ subd' = <<>>
             /\ subscribed' = subscribed /\ snapshots' = snapshots]_vars
    /\ [](~acked => /\ ~connected /\ cbPc = "idle"
                    /\ subscribed = {} /\ snapshots = 0)

\* the handshake was refused with code 5 while connect() polls the flag
C7_Witness ==
    /\ op = "_on_connect" /\ arg.rc = 5 /\ ~acked
    /\ mainPc = "wait" /\ ~connected /\ subscribed = {} /\ snapshots = 0
StepResolve ==
    \E account \in AccountResponses, device \in DeviceResponses :
        ConnectResolve(account, device)

\* C8: when the registration POST is answered 409, provision_device returns
\* False without raising, run() ends, and the key and the certificate that
\* exist at that point stay as they are: not deleted, not generated again.
C8_ConflictKeepsFiles ==
    [][Onboard(409) =>
          /\ ret' = "False" /\ raised' = "none" /\ mainPc' = "exit"
          /\ key_file' = key_file /\ cert_file' = cert_file /\ gens' = gens
          /\ ca_file' = ca_file /\ info_file' = info_file]_vars

\* the run that generated key and certificate 2 was answered 409
C8_Witness ==
    /\ op = "provision_device" /\ arg.rc = 409 /\ ret = "False" /\ mainPc = "exit"
    /\ gens = 2 /\ key_file = 2 /\ cert_file = 2

\* C9: once _save_mqtt_info has written an info with non-empty topics and the
\* cache has not been deleted, the resolution in a later connect() yields
\* exactly the host and the topics that were written, makes no account or
\* device query and does not write the cache.
C9_CacheRoundTrip ==
    [][(/\ StepResolve
        /\ saved # <<>> /\ info_file # NoFile
        /\ PyTruthy(saved[1].topic_d2c) /\ PyTruthy(saved[1].topic_c2d)) =>
          /\ raised' = "none" /\ mainPc' = "tcp"
          /\ mqtt_host' = saved[1].mqtt_host
          /\ topic_d2c' = saved[1].topic_d2c
          /\ topic_c2d' = saved[1].topic_c2d
          /\ apiLog' = apiLog
          /\ info_file' = info_file /\ saved' = saved]_vars

\* a run that made no query resolved the info that an earlier run had saved
C9_Witness ==
    /\ op = "connect" /\ mainPc = "tcp" /\ apiLog = <<>>
    /\ saved # <<>> /\ info_file # NoFile
    /\ topic_d2c = JStr(<<"q", "/", "d">>) /\ topic_c2d = JStr(<<"q", "/", "r">>)
    /\ mqtt_host = JStr(<<"h">>)

\* C10: connect() called while the key, the certificate or the trust anchor
\* is missing returns False at once: the simulator stays disconnected, no
\* client is made, no field is assigned, no request is made to the backend
\* and no file is written.
C10_MissingIdentity ==
    [][(ConnectCheck /\ (key_file = 0 \/ cert_file = 0 \/ ~ca_file)) =>
          /\ ret' = "False" /\ raised' = "none" /\ mainPc' = "failed"
          /\ ~connected' /\ client' = "None"
          /\ UNCHANGED <<fieldVars, connected, netVars, fsVars, cumVars>>]_vars

\* connect() refused to start because the trust anchor had been removed
C10_Witness ==
    /\ op = "connect" /\ ret = "False" /\ mainPc = "failed"
    /\ key_file # 0 /\ cert_file # 0 /\ ~ca_file
    /\ client = "None" /\ apiLog = <<>>
NoAlert(out) == \A i \in 1..Len(out) : out[i].appId # "ALERT"

ConnectReturned == mainPc \in {"connected", "failed", "kbd", "exit"}

\* C11: the handshake wait is bounded.  The budget starts at 30 and never
\* goes below 0, every pass of the loop that sleeps takes one off it, and
\* connect() returns in every behaviour in which the main thread is
\* scheduled; when the flag read after the loop is false connect() returns
\* False, and after that run() leaves the running flag false, starts no
\* producer and publishes nothing.
C11_BoundedHandshake ==
    /\ [](timeout \in 0..ConnectTimeout)
    /\ [][(ConnectPoll /\ mainPc' = "wait") => timeout' = timeout - 1]_vars
    /\ [][(~ConnectPoll) => timeout' \in {timeout, ConnectTimeout}]_vars
    /\ [][(mainPc = "wait" /\ mainPc' # "wait") =>
             /\ mainPc' = "check" /\ timeout' = timeout
             /\ (connected \/ timeout = 0)]_vars
    /\ [][(ConnectVerdict /\ ~connected) =>
             ret' = "False" /\ mainPc' = "failed"]_vars
    /\ [](mainPc \in {"failed", "exit"} =>
             ~running /\ locPc = "unstarted" /\ tmpPc = "unstarted")
    /\ [][(mainPc \in {"failed", "exit"}) =>
             (mainPc' \in {"failed", "exit"} /\ NoAlert(sent'))]_vars
    /\ <>ConnectReturned

\* the budget ran out with the flag still false and connect() returned False
C11_Witness ==
    /\ mainPc = "failed" /\ op = "connect" /\ ret = "False"
    /\ timeout = 0 /\ ~connected /\ loop /\ ~running
\* C12: in a diagnostic run a connect-ack handled while the mode is set
\* issues no subscribe, connect() takes no step towards the snapshot and
\* publishes none, and the only subscribe of the run is the probe, issued
\* after the connection stayed open for the whole observation window.
C12_DiagnosticQuiet ==
    /\ [][(diag_mode /\ \E rc \in ConnackRcs : OnConnect(rc)) =>
             (cbPc' = "idle" /\ subd' = <<>>)]_vars
    /\ [](diag_mode => mainPc \notin {"settle", "snapshot"})
    /\ [](snapshots = 0)
    /\ [][(subd' # <<>>) => (DiagProbe /\ hold = HoldWindow /\ ~dropped)]_vars
\* C13: outside diagnostic mode, the snapshot that connect() publishes after
\* the first successful connect-ack is never published before the
\* subscribe to the cloud-to-device topic has been issued.
C13_SubscribeBeforeSnapshot ==
    (~diag_mode /\ snapshots > 0) => topic_c2d \in subscribed
\* C14: every (MODEM, CMD) message on the command channel is answered with
\* exactly one publish, a (MODEM, DATA) message whose data is the value of
\* the supported query named by the command, and "ERROR" for anything else.
C14_OneReplyPerCommand ==
    (/\ op = "_on_message" /\ CommandChannel(device_id, arg.topic)
     /\ IsModemCmd(arg.payload))
    => LET command == IF arg.payload.data.t = "absent" THEN JStr(<<>>) ELSE arg.payload.data
           data == IF Supported(device_id, command)
                   THEN responses(device_id)[strip(command.s)] ELSE <<"ERROR">>
       IN  /\ Len(sent) = 1
           /\ sent[1] = Msg("MODEM", "DATA", data, 0)
\* C15: whatever CONFIG updates were handled, locationInterval is a positive
\* integer, and every wait window of the location loop has at least one
\* one-second step.
C15_PositiveInterval ==
    /\ shadow_config.locationInterval \in Nat \ {0}
    /\ locPc = "window" => locWin >= 1
\* C16: a message whose payload does not decode, does not parse, or parses
\* to something that is not an object is discarded: _on_message raises
\* nothing, publishes nothing, and leaves the configuration, the connected
\* flag and the session as they were.
C16_MalformedDiscarded ==
    [][(StepOnMessage /\ arg'.payload.shape # "dict") =>
          (/\ raised' = "none" /\ sent' = <<>>
           /\ UNCHANGED <<shadow_config, connected, sess>>)]_vars
StepProvisionStart == \E fetched \in BOOLEAN : ProvisionStart(fetched)

\* C17 as stated: whenever provision_device starts with the key and the
\* certificate on disk it returns True, with no request, no key generation
\* and no change to the key, the certificate or the cache.
C17_AlwaysSuccess ==
    [][(StepProvisionStart /\ key_file # 0 /\ cert_file # 0) =>
          (/\ ret' = "True" /\ raised' = "none"
           /\ apiLog' = apiLog /\ gens' = gens
           /\ UNCHANGED <<key_file, cert_file, info_file, registered>>)]_vars

\* C17: whenever provision_device starts with the key and the certificate
\* on disk, it makes no request, generates no key and changes neither the
\* key, the certificate nor the cache; it returns True and run() goes on to
\* connect() when the trust anchor is on disk or was fetched, and otherwise
\* the failure of the fetch escapes it.  This holds in every run of the
\* program over the same files.
C17_ProvisionOnce ==
    [][(StepProvisionStart /\ key_file # 0 /\ cert_file # 0) =>
          (/\ apiLog' = apiLog /\ gens' = gens
           /\ UNCHANGED <<key_file, cert_file, info_file, registered>>
           /\ IF ca_file'
              THEN ret' = "True" /\ raised' = "none" /\ mainPc' = "connect"
              ELSE ret' = "None" /\ raised' = "URLError" /\ mainPc' = "exit")]_vars

\* the credentials were generated and registered by an earlier run
C17_Witness ==
    /\ op = "provision_device" /\ ret = "True" /\ mainPc = "connect"
    /\ key_file = 2 /\ cert_file = 2 /\ ca_file /\ registered
    /\ apiLog = <<>> /\ gens = 2
StepGenerate == \E made \in BOOLEAN : Keygen(made) \/ Certgen(made)

\* C18: when the key generation or the certificate generation fails,
\* provisioning ends there: the run makes no registration POST and no
\* second attempt, and the key generated in the run (the keys the program
\* generates are numbered from 2) is not left on disk without its
\* certificate.
C18_NoPartialCredentials ==
    [][(StepGenerate /\ raised' = "RuntimeError") =>
          (/\ mainPc' = "exit"
           /\ \A i \in 1..Len(apiLog') : apiLog'[i] # "POST /v1/devices"
           /\ ~(key_file' = gens' /\ gens' > 1 /\ cert_file' # key_file'))]_vars
\* the location loop is at its sends and the model explores no more of them
LocCapped ==
    locPc = "tick" /\ ~(Len(idxHist) <= MaxLaps * Len(route) /\ test_counter < MaxCount)

\* where a loop is when it is not about to send
Waiting == {"warmup", "window", "head", "done"}

\* C19: once running is false, (a) each loop thread, as long as it is
\* scheduled, returns (or the process ends first); (b) a loop inside its
\* wait window begins no further one-second sleep: its next step leaves the
\* window, and it returns at the while test if the window was used up; and
\* (c) a loop that was waiting when the flag went false never reaches its
\* sends again and publishes nothing.
C19_Cancellation ==
    /\ (~running /\ ~LocCapped) ~> (locPc = "done" \/ mainPc = "exit")
    /\ (~running) ~> (tmpPc = "done" \/ mainPc = "exit")
    /\ [][(~running /\ LocWait) =>
             (locPc' \in {"done", "head"} /\ locDone' = locDone /\ sent' = <<>>)]_vars
    /\ [][(~running /\ TmpWait) =>
             (tmpPc' \in {"done", "head"} /\ tmpDone' = tmpDone /\ sent' = <<>>)]_vars
    /\ [][(~running /\ (LocHead \/ TmpHead)) =>
             (locPc' \in {"done", locPc} /\ tmpPc' \in {"done", tmpPc} /\ sent' = <<>>)]_vars
    /\ [][(~running /\ locPc \in Waiting) => locPc' \in Waiting]_vars
    /\ [][(~running /\ tmpPc \in Waiting) => tmpPc' \in Waiting]_vars

\* both loops returned on seeing the flag, each from inside its window,
\* before run() went on to disconnect()
C19_Witness ==
    /\ ~running /\ mainPc = "stopping"
    /\ locPc = "done" /\ locWin = MaxInterval /\ locDone = 1
    /\ tmpPc = "done" /\ tmpWin = TempInterval /\ tmpDone = 1
\* no sender is between its publish and its store
NoSendInProgress == locPc \notin {"load", "store"} /\ mainPc \notin {"g_load", "g_store"}

\* C20: with sends issued by the location loop and by the command g in any
\* interleaving, once k sends have finished the cursor is k positions past
\* the index it started from, modulo the length of the route (idxHist holds
\* the starting index and the cursor stored by each send).
C20_CursorCountsSends ==
    NoSendInProgress =>
        route_index = (idxHist[1] + Len(idxHist) - 1) % Len(route)
StepLocGnss == \E prc \in PublishRcs : LocGnss(prc)

StepLocCount == \E prc \in PublishRcs : LocCount(prc)

\* C21 as stated: a tick whose test finds the flag false sends nothing and
\* leaves the cursor; a tick whose test finds it true sends exactly one
\* location message, and a counter message as well exactly when the toggle
\* read on that tick is enabled.
C21_TickSendsOnce ==
    /\ [][(LocTest /\ ~connected) =>
             (locPc' = "read" /\ sent' = <<>> /\ route_index' = route_index)]_vars
    /\ [][StepLocGnss => (Len(sent') = 1 /\ sent'[1].appId = "GNSS")]_vars
    /\ [][LocToggle => (locPc' = "count" <=> PyTruthy(shadow_config.counterEnable))]_vars
    /\ [][StepLocCount => (Len(sent') = 1 /\ sent'[1].appId = "COUNT")]_vars

\* C21: a tick whose test finds the flag false sends nothing and leaves the
\* cursor.  A tick whose test finds it true runs send_gnss_location: the
\* cursor advances by one, and one location message is sent if the flag is
\* still true at the publish, none otherwise.  send_test_counter runs on
\* that tick exactly when the toggle read on it is enabled, and sends one
\* counter message if the flag is true at its publish, none otherwise.
\* Nothing else in a tick sends or moves the cursor.
C21_TickSends ==
    /\ [][(LocTest /\ ~connected) =>
             (locPc' = "read" /\ sent' = <<>> /\ route_index' = route_index)]_vars
    /\ [][(LocTest /\ connected) =>
             (locPc' = "gnss" /\ sent' = <<>> /\ route_index' = route_index)]_vars
    /\ [][StepLocGnss =>
             (/\ locPc' = "toggle"
              /\ route_index' = (route_index + 1) % Len(route)
              /\ sent' = IF connected THEN <<Msg("GNSS", "", <<>>, route_index)>>
                         ELSE <<>>)]_vars
    /\ [][LocToggle =>
             (/\ locPc' = "count" <=> PyTruthy(shadow_config.counterEnable)
              /\ locPc' \in {"count", "read"}
              /\ sent' = <<>> /\ route_index' = route_index)]_vars
    /\ [][StepLocCount =>
             (/\ sent' = IF connected THEN <<Msg("COUNT", "DATA", <<>>, test_counter)>>
                         ELSE <<>>
              /\ route_index' = route_index)]_vars
    /\ [][(locPc # "count" /\ locPc' = "count") => LocToggle]_vars
    /\ [][(LocCountInc \/ LocRead \/ LocWait \/ LocHead \/ LocWarmup) =>
             (sent' = <<>> /\ route_index' = route_index)]_vars

\* the counter message of a tick whose toggle was read enabled went out
C21_Witness ==
    /\ op = "_location_loop" /\ locPc = "count_inc"
    /\ Len(sent) = 1 /\ sent[1].appId = "COUNT"
    /\ connected /\ PyTruthy(shadow_config.counterEnable)
    /\ Len(idxHist) > 1
StepOnDisconnect == \E rc \in DisconnectRcs : OnDisconnect(rc)

\* C22: _on_disconnect, whatever its code, sets connected to False and
\* issues no connect, no subscribe and no publish (the reconnect is the
\* transport's); connected becomes true again only by a connect-ack with
\* code 0; and every sender run after a disconnect while the flag is still
\* false returns False and hands nothing to the transport.
C22_DisconnectedUntilAck ==
    /\ [][StepOnDisconnect =>
             (/\ ~connected' /\ sess' = "down"
              /\ sent' = <<>> /\ subd' = <<>> /\ subscribed' = subscribed
              /\ client' = client /\ cbPc' = cbPc /\ mainPc' = mainPc)]_vars
    /\ [][(~connected /\ connected') => (OnConnect(0) /\ sess = "connecting")]_vars
    /\ [][(dropped /\ ~connected /\ StepKey) =>
             (ret' = "False" /\ sent' = <<>> /\ ~connected')]_vars

\* a sender was run while the transport was reconnecting after a drop
C22_Witness ==
    /\ dropped /\ ~connected /\ sess = "connecting"
    /\ op \in {"send_alert", "send_temperature", "send_gnss_location", "send_test_counter"}
    /\ ret = "False" /\ sent = <<>>
\* C23: a message on the command channel that is an object but neither
\* (MODEM, CMD) nor of appId CONFIG (MODEM with another messageType among
\* them) changes no field of the configuration, publishes nothing and
\* raises nothing.
C23_OthersIgnored ==
    [][(/\ StepOnMessage /\ CommandChannel(device_id, arg'.topic)
        /\ arg'.payload.shape = "dict"
        /\ ~IsModemCmd(arg'.payload) /\ arg'.payload.appId # "CONFIG") =>
          (/\ shadow_config' = shadow_config
           /\ sent' = <<>> /\ raised' = "none")]_vars

\* a (MODEM, DATA) message carrying a supported query was ignored
C23_Witness ==
    /\ op = "_on_message" /\ CommandChannel(device_id, arg.topic)
    /\ arg.payload.shape = "dict"
    /\ arg.payload.appId = "MODEM" /\ arg.payload.messageType = "DATA"
    /\ Supported(device_id, arg.payload.data)
    /\ sent = <<>> /\ raised = "none"
StepSnapshot == \E prc \in PublishRcs : ConnectSnapshot(prc)

\* C24: whatever becomes of the snapshot publish (handed over and accepted,
\* handed over and refused by the transport, or dropped because the flag
\* went false during the settle delay), connect() returns True, the step
\* changes neither the flag nor the session, and connect() attempts the
\* snapshot once: it never comes back to it, and at most one snapshot is
\* handed to the transport in a run.
C24_SnapshotBestEffort ==
    /\ [][StepSnapshot =>
             (/\ ret' = "True" /\ raised' = "none" /\ mainPc' = "connected"
              /\ connected' = connected /\ sess' = sess /\ cbPc' = cbPc
              /\ Len(sent') <= 1 /\ (~connected => sent' = <<>>))]_vars
    /\ [][(mainPc # "snapshot" /\ mainPc' = "snapshot") => ConnectSettle]_vars
    /\ [][(mainPc \notin {"tcp", "loop_start", "wait", "check", "settle"}) =>
             mainPc' # "settle"]_vars
    /\ [](snapshots <= 1)

\* the session was lost during the settle delay: nothing was sent and
\* connect() returned True
C24_Witness ==
    /\ op = "connect" /\ ret = "True" /\ mainPc = "connected"
    /\ ~connected /\ dropped /\ sent = <<>> /\ snapshots = 0
\* the fields of a JSON value
Plain(v) == [t |-> v.t, n |-> v.n, s |-> v.s]

\* C25: locationInterval is always an integer; it changes only in a CONFIG
\* update that carries an interval int() accepts, to the coerced value, and
\* an update whose interval int() refuses leaves it as it was and raises;
\* counterEnable changes only in a CONFIG update that carries it, to the
\* value carried; and the location loop's reads (counterEnable on a tick,
\* locationInterval at the start of a window) take the field's value at
\* that moment, so the initial one or one a field update wrote.
C25_FieldWritesAreWhole ==
    /\ [](shadow_config.locationInterval \in Int)
    /\ [][(shadow_config'.locationInterval # shadow_config.locationInterval) =>
             (/\ StepOnMessage /\ IsConfigUpdate(arg'.payload)
              /\ arg'.payload.data.li # Absent
              /\ PyInt(arg'.payload.data.li).exc = "none"
              /\ shadow_config'.locationInterval = PyInt(arg'.payload.data.li).n
              /\ raised' = "none")]_vars
    /\ [][(/\ StepOnMessage /\ IsConfigUpdate(arg'.payload)
           /\ arg'.payload.data.li # Absent
           /\ PyInt(arg'.payload.data.li).exc # "none") =>
             (/\ shadow_config'.locationInterval = shadow_config.locationInterval
              /\ raised' = PyInt(arg'.payload.data.li).exc)]_vars
    /\ [][(shadow_config'.counterEnable # shadow_config.counterEnable) =>
             (/\ StepOnMessage /\ IsConfigUpdate(arg'.payload)
              /\ arg'.payload.data.ce # Absent
              /\ shadow_config'.counterEnable = Plain(arg'.payload.data.ce))]_vars
    /\ [][LocRead => locWin' = shadow_config.locationInterval]_vars
    /\ [][LocToggle => (locPc' = "count" <=> PyTruthy(shadow_config.counterEnable))]_vars

\* an update enabled the counter and carried an interval int() refused,
\* while the loop was in a window of the length read before: the toggle is
\* written, the interval is the earlier one
C25_Witness ==
    /\ op = "_on_message" /\ arg.payload.data.li = JStr(<<"x">>)
    /\ raised = "ValueError"
    /\ shadow_config.counterEnable = JBool(TRUE)
    /\ shadow_config.locationInterval = MaxInterval
    /\ locPc = "window" /\ locWin = MaxInterval /\ locDone = 1
\* the cache file parses and both of its topic fields are non-empty
CacheUsable(file) ==
    /\ file.state = "json"
    /\ PyTruthy(dict_get(json_load(file.text), "topic_d2c"))
    /\ PyTruthy(dict_get(json_load(file.text), "topic_c2d"))

\* what C26 says of one resolution with the answers account and device
ResolutionRule(account, device) ==
    LET r == _load_mqtt_info(info_file, device_id, account, device)
        prefix == rstrip_slash(IF account.mqttTopicPrefix = Absent THEN <<>>
                               ELSE account.mqttTopicPrefix.s)
    IN  /\ CacheUsable(info_file) =>
               (/\ r.exc = "none" /\ apiLog' = apiLog
                /\ r.info[1] = json_load(info_file.text))
        /\ ~CacheUsable(info_file) => apiLog' # apiLog
        /\ (/\ ~CacheUsable(info_file) /\ r.exc = "none"
            /\ (~PyTruthy(device.d2c) \/ ~PyTruthy(device.c2d))) =>
               (/\ r.info[1]["topic_d2c"] = JStr(FallbackD2c(prefix, device_id))
                /\ r.info[1]["topic_c2d"] = JStr(FallbackC2d(prefix, device_id)))
        /\ r.exc = "none" =>
               (/\ PyTruthy(r.info[1]["topic_d2c"]) /\ PyTruthy(r.info[1]["topic_c2d"])
                /\ info_file'.state = "json"
                /\ json_load(info_file'.text) = r.info[1])

\* C26: the cache is used exactly when it holds two non-empty topic fields,
\* and then no query is made; otherwise the backend is queried, and a shadow
\* that lacks a topic gives the two fallback topics; whatever is returned
\* has non-empty topics and is the content of the cache afterwards.
C26_Resolution ==
    [][\A account \in AccountResponses, device \in DeviceResponses :
           ConnectResolve(account, device) => ResolutionRule(account, device)]_vars
\* increments that a successful publish has earned and not yet made
PendingIncrements ==
    (IF locPc = "count_inc" THEN 1 ELSE 0) + (IF mainPc = "c_inc" THEN 1 ELSE 0)

CounterTracksPublishes == test_counter + PendingIncrements = Len(counts)

\* C27: the counter values of the accepted COUNT messages are strictly
\* increasing in the order of their publishes (so no two are equal), and the
\* counter has been incremented once for each accepted message and not
\* otherwise, with the loop and the command c interleaved.
C27_CountsIncrease ==
    /\ \A i, j \in 1..Len(counts) : i < j => counts[i] < counts[j]
    /\ CounterTracksPublishes
\* run() has cleared the flag and disconnect() has returned
ShutDown == ~running /\ ~loop /\ sess = "closed" /\ mainPc = "returned"

\* C28: once the running flag is false, the transport loop stopped and the
\* session closed, no step of a producer hands a message to client.publish.
C28_QuietAfterShutdown == [][ShutDown => sent' = <<>>]_vars
\* connect() has returned False with the wait budget used up; the network
\* thread it started is still there
TimedOut == mainPc \in {"failed", "exit"} /\ loop /\ timeout = 0

\* C29 as stated: after connect() has failed on an exhausted budget the
\* flag never becomes true and no subscribe is issued.
C29_LateAckIgnored == [][TimedOut => (~connected' /\ subd' = <<>>)]_vars

\* C29, amended: after connect() has failed on an exhausted budget the main
\* thread only returns from run(): no producer is started, nothing is
\* published, no snapshot is sent; the flag and the subscription change only
\* by a callback of the network thread, which runs until the process has
\* ended, and not at all afterwards.
C29_FailureEndsRun ==
    [][TimedOut =>
          (/\ mainPc' \in {"failed", "exit"}
           /\ ~running' /\ sent' = <<>> /\ snapshots' = snapshots
           /\ locPc' = locPc /\ tmpPc' = tmpPc
           /\ (connected' # connected \/ subd' # <<>>) =>
                  (mainPc = "failed" /\ op' \in {"_on_connect", "_on_disconnect"}))]_vars

C29_Witness ==
    /\ mainPc = "exit" /\ timeout = 0 /\ loop /\ ~running
    /\ connected /\ acked /\ subscribed # {} /\ snapshots = 0
\* the main thread moves to position pc
Enters(pc) == mainPc # pc /\ mainPc' = pc

\* the last request of the log is the registration
Registers(log) == log # <<>> /\ log[Len(log)] = "POST /v1/devices"

AckZero == op' = "_on_connect" /\ arg'.rc = 0 /\ sess = "connecting" /\ sess' = "up"

\* C31: outside the diagnostic mode each connect-ack with code 0, the first
\* and every later one, leaves the callback with one subscribe to make; the
\* callback makes it with one call of client.subscribe, for topic_c2d, and
\* no subscribe is made otherwise.  The device-info snapshot is handed to
\* the transport at most once in a run, by connect() in the main thread and
\* never by a callback.
C31_SubscribePerAck ==
    /\ [][/\ (AckZero /\ ~diag_mode) => (cbPc = "idle" /\ cbPc' = "subscribe" /\ subd' = <<>>)
          /\ (cbPc # "subscribe" /\ cbPc' = "subscribe") => (AckZero /\ ~diag_mode)
          /\ (cbPc = "subscribe" /\ cbPc' # "subscribe") =>
                 (cbPc' = "idle" /\ subd' = <<topic_c2d>> /\ op' = "_on_connect")
          /\ subd' # <<>> => (cbPc = "subscribe" /\ cbPc' = "idle" /\ subd' = <<topic_c2d>>)
          /\ snapshots' # snapshots =>
                 (/\ snapshots = 0 /\ snapshots' = 1
                  /\ mainPc = "snapshot" /\ op' = "connect")
          /\ op' \in {"_on_connect", "_on_disconnect", "reconnect"} => sent' = <<>>]_vars
    /\ [](snapshots \in {0, 1})

\* a second connect-ack with code 0, after the snapshot: the subscribe of the
\* first was made and another is due
C31_Witness ==
    /\ op = "_on_connect" /\ arg.rc = 0 /\ cbPc = "subscribe" /\ ~diag_mode
    /\ dropped /\ topic_c2d \in subscribed /\ snapshots = 1 /\ mainPc = "kbd"
====
